---- MODULE Spec2Model ----
(***************************************************************************)
(* Event ingestion pipeline: parse worker and the other producers of       *)
(* event_raw, the normalize worker that drains event_raw into event_clean, *)
(* and the scripts that requeue raw records.                               *)
(*                                                                         *)
(* The relational store is modelled at the level the workers observe it:   *)
(* committed tables, plus for every connection the uncommitted writes of   *)
(* its open transaction (READ COMMITTED: a statement sees committed rows   *)
(* and the connection's own writes; a write that meets another             *)
(* transaction's uncommitted write of the same row or unique key waits).   *)
(***************************************************************************)
EXTENDS Integers, Sequences, FiniteSets, TLC

(* ---------------------------------------------------------------------- *)
(* Values                                                                  *)
(* ---------------------------------------------------------------------- *)

\* SQL NULL / Python None for string-valued fields.
NULL == "NULL"

\* SQL NULL for the timestamp columns (timestamps are logical clock values >= 1).
NoTime == 0

\* Bounds of the model.
MaxRaw == 3
MaxDbErrors == 1
MaxDeliveries == 3
MaxResets == 1

\* worker_normalize.py BATCH_SIZE (50 in the source), scaled to the model's table size.
BATCH_SIZE == 2

\* Concurrent instances of the normalize worker and of the parse worker.
Workers == {"n1", "n2"}
ParseWorkers == {"p1", "p2"}

(* ---------------------------------------------------------------------- *)
(* Metro reference table (load_data.py): immutable during the pipeline.    *)
(* bbox is the set of coordinates ST_Covers accepts for the region.        *)
(* ---------------------------------------------------------------------- *)
Metro ==
    { [geonameid |-> "m1", country_iso2 |-> "US", bbox |-> {<<"40.7", "-74.0">>}],
      [geonameid |-> "m2", country_iso2 |-> "GB", bbox |-> {<<"51.5", "-0.1">>}] }

(* ---------------------------------------------------------------------- *)
(* JSON-LD blobs and queue packages                                        *)
(* ---------------------------------------------------------------------- *)
NoGeo == [kind |-> "none", latitude |-> NULL, longitude |-> NULL]
NoAddress == [kind |-> "none", street |-> NULL, city |-> NULL, country |-> NULL]
NoLocation == [kind |-> "none", name |-> NULL, address |-> NoAddress, geo |-> NoGeo]

Geo(lat, lon) == [kind |-> "dict", latitude |-> lat, longitude |-> lon]
StrAddress(text) == [kind |-> "str", street |-> text, city |-> NULL, country |-> NULL]
DictAddress(street, city, country) ==
    [kind |-> "dict", street |-> street, city |-> city, country |-> country]
Place(name, address, geo) == [kind |-> "dict", name |-> name, address |-> address, geo |-> geo]
\* A location given as a bare string ("location": "Zoom").
StrLocation(text) == [kind |-> "str", name |-> text, address |-> NoAddress, geo |-> NoGeo]

Blob(type, name, startDate, url, id, location, attendance) ==
    [type |-> type, name |-> name, startDate |-> startDate, url |-> url, id |-> id,
     location |-> location, attendance |-> attendance, description |-> NULL]

\* The blob with a description.
Described(blob, description) == [blob EXCEPT !.description = description]

Package(original_url, blob, source_metro_id) ==
    [original_url |-> original_url, blob |-> blob, source_metro_id |-> source_metro_id]

\* Blobs the producers see.
SalsaA ==
    Blob("Event", "Salsa Night", "2024-07-20T20:00:00Z", "https://a.example/salsa", NULL,
         Place("Example Hall", StrAddress("123 Main St, Springfield"), NoGeo), NULL)
\* Same title (up to surrounding blanks), same day at another hour, carries coordinates
\* inside m1, and has neither url nor @id.
SalsaB ==
    Blob("DanceEvent", " Salsa Night ", "2024-07-20T22:30:00Z", NULL, NULL,
         Place("Example Hall", NoAddress, Geo("40.70", "-74.0")), NULL)
\* Passes the parse worker's checks (a non-empty name) but has no title once stripped;
\* it carries an address a geocoder could be asked about.
Blank ==
    Blob("Event", "   ", "2024-07-20T20:00:00Z", "https://a.example/blank", NULL,
         Place("Example Hall", StrAddress("123 Main St, Springfield"), NoGeo), NULL)
\* An online event whose location is a bare string: process_raw_event raises on
\* jsonld.get('location', {}).get('url').
Online ==
    Blob("Event", "Kizomba Online", "2024-07-22T18:00:00Z", NULL, "urn:kizomba:9",
         StrLocation("Zoom"), "https://schema.org/OnlineEventAttendanceMode")
\* Rejected by the parse worker.
NoStart ==
    Blob("Event", "Tango Tea", "next friday-ish", "https://a.example/tango", NULL,
         Place("Example Hall", StrAddress("123 Main St, Springfield"), NoGeo), NULL)
\* Carries an address and numeric coordinates that no region covers.
Far ==
    Blob("Event", "Far Fiesta", "2024-07-21T19:00:00Z", "https://a.example/far", NULL,
         Place("Nowhere", StrAddress("123 Main St, Springfield"), Geo("0.0", "0.0")), NULL)
\* Carries a structured address and no coordinates.
\* Its description names two more styles by a second keyword, and has "salsa" only as
\* part of a longer word.
Bachata ==
    Described(
        Blob("Event", "Bachata Social", "2024-07-22T18:00:00Z", "https://a.example/bachata",
             NULL, Place("High Club", DictAddress("5 High St", "London", "GB"), NoGeo), NULL),
        "Semba upstairs, WCS in the Salsateca room")
NotEvent ==
    Blob("Organization", "Dance School", "2024-07-20T20:00:00Z", "https://a.example/org",
         NULL, NoLocation, NULL)
\* An approved type and a start date, and no name.
NoName ==
    Blob("Event", NULL, "2024-07-21T19:00:00Z", "https://a.example/noname", NULL,
         NoLocation, NULL)

PkgSalsaA == Package("https://a.example/page", SalsaA, "m1")
PkgSalsaB == Package("https://b.example/page", SalsaB, "m1")
PkgBlank == Package("https://a.example/page", Blank, "m1")
PkgOnline == Package("https://d.example/page", Online, "m2")
PkgNoStart == Package("https://a.example/page", NoStart, "m1")
PkgNotEvent == Package("https://a.example/page", NotEvent, "m1")
PkgNoMetro == Package("https://a.example/page", SalsaA, NULL)
PkgNoUrl == Package(NULL, SalsaA, "m1")
PkgNoName == Package("https://a.example/page", NoName, "m1")

(* ---------------------------------------------------------------------- *)
(* Library conversions, by what they return on the strings of the model    *)
(* ---------------------------------------------------------------------- *)

\* dateutil_parser.parse wrapped by parse_datetime: None for a missing or
\* unparseable string, else the timestamp (calendar day and time of day).
NoTs == [day |-> NULL, time |-> NULL]
parse_datetime(date_string) ==
    CASE date_string = "2024-07-20T20:00:00Z" -> [day |-> "2024-07-20", time |-> "20:00:00"]
      [] date_string = "2024-07-20T22:30:00Z" -> [day |-> "2024-07-20", time |-> "22:30:00"]
      [] date_string = "2024-07-21T19:00:00Z" -> [day |-> "2024-07-21", time |-> "19:00:00"]
      [] date_string = "2024-07-22T18:00:00Z" -> [day |-> "2024-07-22", time |-> "18:00:00"]
      [] OTHER -> NoTs

\* str(text).strip(), or None for a missing or empty text.
normalize_string(text) ==
    CASE text = NULL -> NULL
      [] text = "" -> NULL
      [] text = " Salsa Night " -> "Salsa Night"
      [] text = "   " -> ""
      [] OTHER -> text

\* unidecode(str(text).lower()) cut at the places where the regular expression's \b
\* matches: the words (runs of letters, digits and underscores) of the text.
Words(text) ==
    CASE text = "Salsa Night" -> <<"salsa", "night">>
      [] text = " Salsa Night " -> <<"salsa", "night">>
      [] text = "Example Hall" -> <<"example", "hall">>
      [] text = "Kizomba Online" -> <<"kizomba", "online">>
      [] text = "Tango Tea" -> <<"tango", "tea">>
      [] text = "Far Fiesta" -> <<"far", "fiesta">>
      [] text = "Nowhere" -> <<"nowhere">>
      [] text = "Bachata Social" -> <<"bachata", "social">>
      [] text = "High Club" -> <<"high", "club">>
      [] text = "Semba upstairs, WCS in the Salsateca room" ->
            <<"semba", "upstairs", "wcs", "in", "the", "salsateca", "room">>
      [] text = "An evening of Argentine tango and Brazilian zouk for every level" ->
            <<"an", "evening", "of", "argentine", "tango", "and", "brazilian", "zouk",
              "for", "every", "level">>
      [] OTHER -> <<>>

\* len(text) > 50 on the texts above.
LongerThan50(text) ==
    text = "An evening of Argentine tango and Brazilian zouk for every level"

\* Python truthiness of an optional string.
Truthy(s) == s /= NULL /\ s /= ""

\* len(x) == 2 and x.isalpha()
IsAlpha2(x) == x \in {"US", "GB"}

\* float(x) of a JSON coordinate: the strings below convert, anything else raises
\* ValueError/TypeError.
IsNumeric(x) == x \in {"40.7", "40.70", "-74.0", "51.5", "-0.1", "0.0"}

\* float(x) as Python prints it back into the WKT text "POINT(lon lat)".
Float(x) == IF x = "40.70" THEN "40.7" ELSE x

(* ---------------------------------------------------------------------- *)
(* worker_normalize.py: pure helpers                                       *)
(* ---------------------------------------------------------------------- *)

\* A coordinate pair <<lat, lon>>; NoPoint when lat or lon is None.
NoPoint == <<NULL, NULL>>

\* What geolocator.geocode may hand back through geocode_address: no result (also a
\* timeout after the retries, or an unavailable provider) or a point, here one
\* inside m2.
GeocodeAnswers == {NoPoint, <<"51.5", "-0.1">>}

\* hashlib.sha1(s.encode()).hexdigest()[:16] of the string "title|day|metro": the
\* digest is represented by the three parts of the string it is taken of.
NoFp == <<NULL, NULL, NULL>>
Sha1Hex16(norm_title, start_date_str, metro_id) == <<norm_title, start_date_str, metro_id>>

\* Variant: a fingerprint is produced for a record without a region too.
make_fp_without_region(title, start_ts, metro_id) ==
    IF ~(Truthy(title) /\ start_ts /= NoTs) \/ ~Truthy(normalize_string(title))
    THEN NoFp
    ELSE Sha1Hex16(normalize_string(title), start_ts.day, metro_id)

make_fp(title, start_ts, metro_id) ==
    IF ~(Truthy(title) /\ start_ts /= NoTs /\ metro_id /= NULL)
    THEN NoFp
    ELSE LET norm_title == normalize_string(title)
         IN  IF ~Truthy(norm_title)
             THEN NoFp
             ELSE Sha1Hex16(norm_title, start_ts.day, metro_id)

(* make_fp character by character: texts are sequences of characters, None and the   *)
(* empty string both <<>> where only truthiness is read.                              *)

\* Characters of the texts make_fp is given, and the longest title.
FpChars == {"s", " ", "|", "1"}
MaxTitleLen == 2

\* str(text).strip(): leading and trailing blanks removed.
RECURSIVE lstrip(_)
lstrip(text) == IF text /= <<>> /\ Head(text) = " " THEN lstrip(Tail(text)) ELSE text
RECURSIVE rstrip(_)
rstrip(text) ==
    IF text /= <<>> /\ text[Len(text)] = " "
    THEN rstrip(SubSeq(text, 1, Len(text) - 1))
    ELSE text
strip(text) == rstrip(lstrip(text))

\* start_ts.strftime('%Y-%m-%d'): the date of the timestamp, the time of day dropped.
strftime_Ymd(start_ts) == start_ts.date

\* Variant: the date is left out of the text that is hashed.
fingerprint_str_no_day(norm_title, start_date_str, metro_id) ==
    norm_title \o <<"|">> \o <<"|">> \o metro_id

\* f"{norm_title}|{start_date_str}|{metro_id}"
fingerprint_str(norm_title, start_date_str, metro_id) ==
    norm_title \o <<"|">> \o start_date_str \o <<"|">> \o metro_id

\* A datetime that is None, and a metro_id that is None (an int is never printed as
\* the empty text).
NoStartTs == [date |-> <<>>, time |-> <<>>]
NoMetroId == <<>>

\* make_fp(title, start_ts, metro_id) on texts; the sha1 digest cut to 16 characters
\* is taken as injective and stands for the text it is taken of. <<>> is None.
make_fp_text(title, start_ts, metro_id) ==
    IF title = <<>> \/ start_ts = NoStartTs \/ metro_id = NoMetroId
    THEN <<>>
    ELSE LET norm_title == strip(title)
         IN  IF norm_title = <<>>
             THEN <<>>
             ELSE fingerprint_str(norm_title, strftime_Ymd(start_ts), metro_id)

\* SELECT geonameid FROM metro WHERE ST_Covers(bbox, point) LIMIT 1, or None.
\* dbok = FALSE: the statement fails (psycopg2.Error is caught, None is returned).
get_metro_id_for_coords(dbok, point) ==
    IF point = NoPoint \/ ~dbok
    THEN NULL
    ELSE IF \E m \in Metro : point \in m.bbox
         THEN (CHOOSE m \in Metro : point \in m.bbox).geonameid
         ELSE NULL

\* SELECT country_iso2 FROM metro WHERE geonameid = ..., or None.
get_country_code_for_metro(dbok, metro_geonameid) ==
    IF metro_geonameid = NULL \/ ~dbok
    THEN NULL
    ELSE IF \E m \in Metro : m.geonameid = metro_geonameid
         THEN (CHOOSE m \in Metro : m.geonameid = metro_geonameid).country_iso2
         ELSE NULL

\* process_raw_event returning None.
NoneEvent ==
    [ok |-> FALSE, event_raw_id |-> 0, source |-> NULL, source_event_id |-> NULL,
     title |-> NULL, start_ts |-> NoTs, venueName |-> NULL, venueAddress |-> <<>>,
     venueGeom |-> NoPoint, metro_id |-> NULL, fingerprint |-> NoFp,
     description |-> NULL, url |-> NULL, quality_score |-> NULL]

\* The address handed to the first geocode_address call: the structured dict when
\* the payload has one with any part, else the address string; NULL for neither.
AddressToGeocode(loc) ==
    IF loc.kind /= "dict" THEN NULL
    ELSE IF loc.address.kind = "str" THEN normalize_string(loc.address.street)
    ELSE IF loc.address.kind = "dict"
            /\ (Truthy(normalize_string(loc.address.street))
                \/ Truthy(normalize_string(loc.address.city))
                \/ Truthy(normalize_string(loc.address.country)))
         THEN "structured"
    ELSE NULL

\* Variant: the payload's geo block is not read.
PayloadPointUnread(loc) == NoPoint

\* lat/lon taken from the payload's geo block.
PayloadPoint(loc) ==
    IF loc.kind = "dict" /\ loc.geo.kind = "dict"
       /\ loc.geo.latitude /= NULL /\ loc.geo.longitude /= NULL
       /\ IsNumeric(loc.geo.latitude) /\ IsNumeric(loc.geo.longitude)
    THEN <<Float(loc.geo.latitude), Float(loc.geo.longitude)>>
    ELSE NoPoint

\* process_raw_event returning None before it looks at the location: the except
\* clause after 'str' object has no attribute 'get', or a missing title or start.
ReturnsEarly(raw_event_row) ==
    LET jsonld == raw_event_row.raw_json
        raises == /\ ~Truthy(normalize_string(jsonld.url))
                  /\ jsonld.attendance = "https://schema.org/OnlineEventAttendanceMode"
                  /\ jsonld.location.kind = "str"
    IN  \/ raises
        \/ ~Truthy(normalize_string(jsonld.name))
        \/ parse_datetime(jsonld.startDate) = NoTs

\* Whether process_raw_event reaches the first / the city-level geocode_address call.
NeedsGeocode(raw_event_row) ==
    LET jsonld == raw_event_row.raw_json
    IN  /\ ~ReturnsEarly(raw_event_row)
        /\ PayloadPoint(jsonld.location) = NoPoint
        /\ Truthy(AddressToGeocode(jsonld.location))

\* country_code_hint: the country of the metro hint, else a two-letter addressCountry.
CountryCodeHint(raw_event_row, dbok) ==
    LET loc == raw_event_row.raw_json.location
        metro_hint_country == get_country_code_for_metro(dbok, raw_event_row.metro_id)
        s_country == IF loc.kind = "dict" /\ loc.address.kind = "dict"
                     THEN normalize_string(loc.address.country) ELSE NULL
    IN  IF Truthy(metro_hint_country) THEN metro_hint_country
        ELSE IF IsAlpha2(s_country) THEN s_country
        ELSE NULL

NeedsFallback(raw_event_row, g1, dbok) ==
    LET loc == raw_event_row.raw_json.location
        s_city == IF loc.kind = "dict" /\ loc.address.kind = "dict"
                  THEN normalize_string(loc.address.city) ELSE NULL
    IN  /\ NeedsGeocode(raw_event_row)
        /\ g1 = NoPoint
        /\ Truthy(s_city)
        /\ Truthy(CountryCodeHint(raw_event_row, dbok))

\* The geocode_address calls of one process_raw_event, in order: the address (or the
\* city of the fallback query "<city>, <country>"), the country handed over, and the
\* answer that came back.
GeocodeCalls(raw_event_row, g1, g2, dbok) ==
    LET loc == raw_event_row.raw_json.location
        hint == CountryCodeHint(raw_event_row, dbok)
    IN  (IF NeedsGeocode(raw_event_row)
         THEN <<[address |-> AddressToGeocode(loc), country |-> hint, fallback |-> FALSE,
                 answer |-> g1]>>
         ELSE <<>>)
        \o (IF NeedsFallback(raw_event_row, g1, dbok)
            THEN <<[address |-> normalize_string(loc.address.city), country |-> hint,
                    fallback |-> TRUE, answer |-> g2]>>
            ELSE <<>>)

\* The answers <<g1, g2>> process_raw_event may get for a row (NoPoint for a call it
\* does not make).
Answers(raw_event_row, dbok) ==
    {g \in GeocodeAnswers \X GeocodeAnswers :
        /\ NeedsGeocode(raw_event_row) \/ g[1] = NoPoint
        /\ NeedsFallback(raw_event_row, g[1], dbok) \/ g[2] = NoPoint}

\* venue_address_str built from the payload's address: the stripped string, or the
\* ", "-joined parts of a structured address, kept here as the sequence of the parts
\* joined (the country is left out when it equals the country hint). <<>> is None.
VenueAddressStr(loc, country_code_hint) ==
    LET Part(x) == IF Truthy(normalize_string(x)) THEN <<normalize_string(x)>> ELSE <<>>
    IN  IF loc.kind /= "dict" THEN <<>>
        ELSE IF loc.address.kind = "str" THEN Part(loc.address.street)
        ELSE IF loc.address.kind = "dict"
             THEN Part(loc.address.street) \o Part(loc.address.city)
                  \o (IF IsAlpha2(normalize_string(loc.address.country))
                         /\ normalize_string(loc.address.country) = country_code_hint
                      THEN <<>> ELSE Part(loc.address.country))
        ELSE <<>>

\* Variant: the region hint is not used.
final_metro_id_coords_only(metro_id_from_coords, source_metro_geonameid) == metro_id_from_coords

\* Variant: the region hint is preferred to the region that covers the coordinates.
final_metro_id_hint_first(metro_id_from_coords, source_metro_geonameid) ==
    IF source_metro_geonameid /= NULL THEN source_metro_geonameid ELSE metro_id_from_coords

\* final_metro_id = metro_id_from_coords if metro_id_from_coords is not None
\*                  else source_metro_geonameid
final_metro_id(metro_id_from_coords, source_metro_geonameid) ==
    IF metro_id_from_coords /= NULL THEN metro_id_from_coords ELSE source_metro_geonameid

\* DANCE_STYLE_KEYWORDS: style -> keywords, each the words of the keyword.
DANCE_STYLE_KEYWORDS ==
    ("salsa" :> <<<<"salsa">>>>)
    @@ ("bachata" :> <<<<"bachata">>>>)
    @@ ("kizomba" :> <<<<"kizomba">>, <<"semba">>>>)
    @@ ("zouk" :> <<<<"zouk">>, <<"brazilian", "zouk">>>>)
    @@ ("west coast swing" :> <<<<"west", "coast", "swing">>, <<"wcs">>>>)
    @@ ("tango" :> <<<<"tango">>, <<"argentine", "tango">>>>)

\* re.search(r'\b' + re.escape(keyword) + r'\b', normalized_content), the words of
\* the content being separated by single blanks or punctuation.
re_search(keyword, normalized_content) ==
    \E i \in 1..(Len(normalized_content) - Len(keyword) + 1) :
        \A j \in 1..Len(keyword) : normalized_content[i + j - 1] = keyword[j]

\* Variant: only the first keyword of each style is looked for.
tag_dance_styles_first_keyword(text_content) ==
    {style \in DOMAIN DANCE_STYLE_KEYWORDS :
        re_search(DANCE_STYLE_KEYWORDS[style][1], text_content)}

\* tag_dance_styles: the styles one of whose keywords is found (the sorted list, as
\* the set of its members).
tag_dance_styles(text_content) ==
    {style \in DOMAIN DANCE_STYLE_KEYWORDS :
        \E k \in 1..Len(DANCE_STYLE_KEYWORDS[style]) :
            re_search(DANCE_STYLE_KEYWORDS[style][k], text_content)}

\* ' '.join(filter(None, [title, description, venue_name])), as its words.
search_text(title, description, venue_name) ==
    (IF Truthy(title) THEN Words(title) ELSE <<>>)
    \o (IF Truthy(description) THEN Words(description) ELSE <<>>)
    \o (IF Truthy(venue_name) THEN Words(venue_name) ELSE <<>>)

\* process_raw_event 424-426: the tags of the dict it returns.
tags_of(out) == tag_dance_styles(search_text(out.title, out.description, out.venueName))

\* score(evt). The payloads of the model carry no offers and no image, and their
\* source is a page url.
score(evt) ==
    (IF Truthy(evt.title) THEN 10 ELSE 0)
    + (IF evt.start_ts /= NoTs THEN 10 ELSE 0)
    + (IF evt.venueGeom /= NoPoint THEN 10 ELSE 0)
    + (IF Truthy(evt.venueName) THEN 5 ELSE 0)
    + (IF Truthy(evt.description) /\ LongerThan50(evt.description) THEN 5 ELSE 0)
    + (IF evt.source \in {"eventbrite", "meetup", "ticketmaster"} THEN 3 ELSE 0)
    + (IF Truthy(evt.url) THEN 2 ELSE 0)
    + (IF evt.tags /= {} THEN 1 ELSE 0)

\* process_raw_event(cur, raw_event_row), but for the tags of the dict it returns,
\* which are tags_of the dict. g1 and g2 are the answers of the two
\* geocode_address calls (specific address, then "<city>, <country>") should the
\* function reach them; dbok says whether the metro lookups on cur succeed.
process_raw_event(raw_event_row, g1, g2, dbok) ==
    LET jsonld == raw_event_row.raw_json
        loc == jsonld.location
        title == normalize_string(jsonld.name)
        start_ts == parse_datetime(jsonld.startDate)
        description == normalize_string(jsonld.description)
        source_metro_geonameid == raw_event_row.metro_id
        s_city == IF loc.kind = "dict" /\ loc.address.kind = "dict"
                  THEN normalize_string(loc.address.city) ELSE NULL
        country_code_hint == CountryCodeHint(raw_event_row, dbok)
        venue_name == IF loc.kind = "dict" THEN normalize_string(loc.name) ELSE NULL
        p0 == PayloadPoint(loc)
        geocodes == p0 = NoPoint /\ Truthy(AddressToGeocode(loc))
        p1 == IF geocodes /\ g1 /= NoPoint THEN g1 ELSE p0
        fallback == geocodes /\ g1 = NoPoint /\ Truthy(s_city) /\ Truthy(country_code_hint)
        p2 == IF fallback /\ g2 /= NoPoint THEN g2 ELSE p1
        metro_id_from_coords == get_metro_id_for_coords(dbok, p2)
    IN  IF ReturnsEarly(raw_event_row)
        THEN NoneEvent
        ELSE [ok |-> TRUE,
              event_raw_id |-> raw_event_row.id,
              source |-> raw_event_row.source,
              source_event_id |-> raw_event_row.source_event_id,
              title |-> title,
              start_ts |-> start_ts,
              venueName |-> venue_name,
              venueAddress |-> VenueAddressStr(loc, country_code_hint),
              venueGeom |-> p2,
              metro_id |-> final_metro_id(metro_id_from_coords, source_metro_geonameid),
              fingerprint |-> NoFp,
              description |-> description,
              url |-> normalize_string(jsonld.url),
              quality_score |-> NULL]

\* worker_normalize 495-512: the dict of process_raw_event (with its tags), the
\* fingerprint and the quality score.
normalized_event_dict(raw_event_row, g1, g2, dbok) ==
    LET d == process_raw_event(raw_event_row, g1, g2, dbok)
        out == [x \in DOMAIN d \cup {"tags"} |-> IF x = "tags" THEN tags_of(d) ELSE d[x]]
        with_fp == [out EXCEPT !.fingerprint = make_fp(d.title, d.start_ts, d.metro_id)]
    IN  [with_fp EXCEPT !.quality_score = score(with_fp)]

(* ---------------------------------------------------------------------- *)
(* worker_parse.py: admission                                              *)
(* ---------------------------------------------------------------------- *)
APPROVED_EVENT_TYPES == {"Event", "DanceEvent", "SocialDance"}

\* Variant: the quality check without the name.
AdmitsAnyName(record) ==
    /\ record.original_url /= NULL
    /\ record.source_metro_id /= NULL
    /\ record.blob.type \in APPROVED_EVENT_TYPES
    /\ parse_datetime(record.blob.startDate) /= NoTs

\* The checks of worker_parse between json.loads and the INSERT.
Admits(record) ==
    /\ record.original_url /= NULL
    /\ record.source_metro_id /= NULL
    /\ record.blob.type \in APPROVED_EVENT_TYPES
    /\ Truthy(record.blob.name)
    /\ parse_datetime(record.blob.startDate) /= NoTs

\* potential_source_event_id = ld_blob.get("url") or ld_blob.get("@id")
potential_source_event_id(ld_blob) ==
    IF Truthy(ld_blob.url) THEN ld_blob.url
    ELSE IF Truthy(ld_blob.id) THEN ld_blob.id
    ELSE NULL

\* Variant: the name is stripped before the blob is stored.
ParseRowStripped(record, id, now) ==
    [id |-> id,
     source |-> record.original_url,
     source_event_id |-> potential_source_event_id(record.blob),
     metro_id |-> record.source_metro_id,
     raw_json |-> [record.blob EXCEPT !.name = normalize_string(@)],
     parsed_at |-> now,
     normalized_at |-> NoTime,
     normalization_status |-> NULL]

\* The row of INSERT INTO event_raw (source, source_event_id, metro_id, raw_json,
\* parsed_at) VALUES (original_url, potential_source_event_id, source_metro_id,
\* Json(ld_blob), now()), with the id the sequence assigns.
ParseRow(record, id, now) ==
    [id |-> id,
     source |-> record.original_url,
     source_event_id |-> potential_source_event_id(record.blob),
     metro_id |-> record.source_metro_id,
     raw_json |-> record.blob,
     parsed_at |-> now,
     normalized_at |-> NoTime,
     normalization_status |-> NULL]

\* Variant: an INSERT into event_raw without the ON CONFLICT clause.
ConflictsRawNever(row, rows) == FALSE

\* ON CONFLICT (source, source_event_id): the unique index source_event_idx sees a
\* conflict only between rows whose source_event_id is not NULL.
ConflictsRaw(row, rows) ==
    /\ row.source_event_id /= NULL
    /\ \E r \in rows : r.source = row.source /\ r.source_event_id = row.source_event_id

SeqToSet(q) == {q[i] : i \in 1..Len(q)}

(* ---------------------------------------------------------------------- *)
(* State                                                                   *)
(* ---------------------------------------------------------------------- *)
VARIABLES
    event_raw,      \* committed rows of event_raw, in id order (id = position)
    event_clean,    \* committed rows of event_clean
    npc,            \* normalize worker -> where its loop stands
    batch,          \* normalize worker -> raw_event_rows still to handle (head: current)
    rowcount,       \* normalize worker -> cur.rowcount of its last INSERT
    txn,            \* normalize worker -> uncommitted writes of its connection
    raw_events_batch, \* per normalize worker: the rows its SELECT returned
    db_errors,      \* statements the store has failed so far, by kind
    resets,         \* runs of the reset script so far: the id and the status erased
    jsonld_raw,     \* the Redis list the parse workers pop from
    deliveries,     \* packages pushed onto jsonld_raw so far
    ppc,            \* parse worker / producer -> where it stands
    ppkg,           \* parse worker / producer -> the package or payload in hand
    ptxn,           \* parse worker / producer -> uncommitted event_raw rows of its connection
    stats,          \* parse worker -> its counters; producer -> its last return value
    geocoded,       \* normalize worker -> the geocode_address calls of its last process_raw_event in this pass
    fp_run,         \* the arguments and results of the last two make_fp calls compared
    venue_cache,    \* committed rows of venue_cache
    api_usage_tracking, \* committed calls_count of 'google_places': today's row, and the
                    \* sum over the earlier days of this month
    resolver,       \* running resolve_venue_address -> where it stands and its locals
    places_calls,   \* requests to the Places API issued today
    resolved,       \* (venue_name, city) pairs a resolve_venue_address call has returned API data for
    url_queue,      \* the Redis list the fetch workers pop from
    urls_pushed,    \* packages pushed onto url_queue so far
    fetcher,        \* fetch worker -> where its loop stands and its locals
    submit,         \* the running batch_api_tasks call: its arguments, locals and requests
    poll,           \* the running poll_task_results call: its argument and locals
    retrieved,      \* (function, task id) pairs whose results a retrieval outside the poll
                    \* loop has fetched
    stops,          \* interrupts and kills of fetch and parse workers so far
    norm_run,       \* the row, the geocoder's answers and the outcome of a single
                    \* normalization of one row
    geocoder        \* the running geocode_address call: where it stands and its locals

nvars == <<npc, batch, raw_events_batch, rowcount, txn>>
pvars == <<jsonld_raw, deliveries, ppc, ppkg, ptxn, stats, resets>>
uvars == <<norm_run, geocoder>>
zvars == <<poll, retrieved, stops, uvars>>
yvars == <<url_queue, urls_pushed, fetcher, submit, zvars>>
xvars == <<fp_run, venue_cache, api_usage_tracking, resolver, places_calls, resolved, yvars>>
vars == <<event_raw, event_clean, npc, batch, raw_events_batch, rowcount, txn, db_errors, resets,
          jsonld_raw, deliveries, ppc, ppkg, ptxn, stats, geocoded, xvars>>

RawIds == 1..Len(event_raw)

NoTxn == [clean |-> {}, marks |-> {}, aborted |-> FALSE]

\* A transaction in which a statement has failed: its writes are undone and its
\* locks released at once; until ROLLBACK every further statement fails.
AbortedTxn == [clean |-> {}, marks |-> {}, aborted |-> TRUE]

\* Statements the store has failed, by the statement: a metro lookup of
\* process_raw_event, the INSERT into event_clean, the UPDATE of
\* mark_raw_event_status, the UPDATE after a rollback, an INSERT into event_raw, a
\* statement of places_api_helper.
NoDbErrors == [lookup |-> 0, insert |-> 0, mark |-> 0, errmark |-> 0, raw |-> 0, places |-> 0]
DbErrorCount ==
    db_errors.lookup + db_errors.insert + db_errors.mark + db_errors.errmark + db_errors.raw
    + db_errors.places

(* ---------------------------------------------------------------------- *)
(* worker_normalize.py: the worker loop                                    *)
(* ---------------------------------------------------------------------- *)

\* Rows another connection has updated and not yet committed (row locks).
RowLockedByOther(w, id) ==
    \E o \in Workers \ {w} : \E m \in txn[o].marks : m.id = id

\* Unique keys (metro_id, fingerprint) another connection has inserted and not yet
\* committed: an INSERT of the same key waits for that transaction to end.
KeyHeldByOther(w, metro_id, fingerprint) ==
    \E o \in Workers \ {w} :
        \E c \in txn[o].clean : c.metro_id = metro_id /\ c.fingerprint = fingerprint

\* Variant: the SELECT without the normalized_at IS NULL condition.
AwaitingAnyParsed(rows) ==
    {i \in 1..Len(rows) : rows[i].parsed_at /= NoTime}

\* SELECT * FROM event_raw WHERE parsed_at IS NOT NULL AND normalized_at IS NULL
Awaiting(rows) ==
    {i \in 1..Len(rows) : rows[i].parsed_at /= NoTime /\ rows[i].normalized_at = NoTime}

\* ... ORDER BY parsed_at ASC LIMIT n
RECURSIVE OrderByParsedAt(_, _, _)
OrderByParsedAt(rows, ids, n) ==
    IF ids = {} \/ n = 0
    THEN <<>>
    ELSE LET first == CHOOSE i \in ids :
                          \A j \in ids : \/ rows[i].parsed_at < rows[j].parsed_at
                                         \/ (rows[i].parsed_at = rows[j].parsed_at /\ i <= j)
         IN  <<rows[first]>> \o OrderByParsedAt(rows, ids \ {first}, n - 1)

SelectBatch(rows) == OrderByParsedAt(rows, Awaiting(rows), BATCH_SIZE)

\* Variant: the UPDATE matches no row, so the transaction is left as it was.
mark_raw_event_status_no_row(t, event_raw_id, status) == t

\* mark_raw_event_status(cur, event_raw_id, status) on an open transaction:
\* UPDATE event_raw SET normalized_at = CURRENT_TIMESTAMP, normalization_status = status
\* WHERE id = event_raw_id. In a transaction that a failed statement has aborted the
\* UPDATE fails too, and the function swallows the error.
mark_raw_event_status(t, event_raw_id, status) ==
    IF t.aborted
    THEN t
    ELSE [t EXCEPT !.marks = {m \in t.marks : m.id /= event_raw_id}
                             \cup {[id |-> event_raw_id, status |-> status]}]

\* The committed table after the UPDATEs of a transaction are committed.
ApplyMarks(rows, marks) ==
    [i \in 1..Len(rows) |->
        IF \E m \in marks : m.id = i
        THEN [rows[i] EXCEPT !.normalized_at = 1,
                             !.normalization_status =
                                 (CHOOSE m \in marks : m.id = i).status]
        ELSE rows[i]]

\* The event_clean row of a normalized_event_dict.
CleanRow(d) ==
    [event_raw_id |-> d.event_raw_id, source |-> d.source,
     source_event_id |-> d.source_event_id, title |-> d.title, start_ts |-> d.start_ts,
     venue_name |-> d.venueName, venue_address |-> d.venueAddress,
     venue_geom |-> d.venueGeom, metro_id |-> d.metro_id, fingerprint |-> d.fingerprint]

\* Variant: the conflict target is the raw row's id instead of (metro_id, fingerprint).
ConflictsCleanByRawId(d, rows) ==
    \E c \in rows : c.event_raw_id = d.event_raw_id

\* Variant: an INSERT without the ON CONFLICT clause always creates a row.
ConflictsCleanNever(d, rows) == FALSE

\* ON CONFLICT (metro_id, fingerprint): a row with the key is visible to the statement.
ConflictsClean(d, rows) ==
    \E c \in rows : c.metro_id = d.metro_id /\ c.fingerprint = d.fingerprint

SameKey(c, d) == c.metro_id = d.metro_id /\ c.fingerprint = d.fingerprint

\* Where the for loop goes after the current row.
AfterRow(w) == IF Len(batch[w]) > 1 THEN "process" ELSE "commit"

\* Top of the while loop: select a batch; an empty one is committed and slept on.
Fetch(w) ==
    /\ npc[w] = "idle"
    /\ LET raw_event_rows == SelectBatch(event_raw)
       IN  IF raw_event_rows = <<>>
           THEN UNCHANGED <<npc, batch, raw_events_batch>>
           ELSE /\ npc' = [npc EXCEPT ![w] = "process"]
                /\ batch' = [batch EXCEPT ![w] = raw_event_rows]
                /\ raw_events_batch' = [raw_events_batch EXCEPT ![w] = raw_event_rows]
    /\ UNCHANGED <<event_raw, event_clean, rowcount, txn, db_errors, pvars, geocoded, xvars>>

\* Lines 490-544 for the current row: process_raw_event, make_fp, and then either
\* mark_raw_event_status(.., 'error') for a row that yields no dict or no fingerprint,
\* or INSERT INTO event_clean ... ON CONFLICT (metro_id, fingerprint) DO NOTHING.
\* g1, g2: the geocoder's answers; fails: a metro lookup of process_raw_event fails
\* in the store (the error is swallowed there and leaves the transaction aborted, so
\* the INSERT that follows raises: see InsertCleanFails).
Transform(w, g1, g2, fails) ==
    /\ npc[w] = "process"
    /\ batch[w] /= <<>>
    /\ fails => /\ DbErrorCount < MaxDbErrors
                /\ ~txn[w].aborted
                /\ process_raw_event(Head(batch[w]), g1, g2, TRUE).ok
    /\ LET raw_event_row == Head(batch[w])
           dbok == ~fails /\ ~txn[w].aborted
           t == IF fails THEN AbortedTxn ELSE txn[w]
           d == process_raw_event(raw_event_row, g1, g2, dbok)
           fp == make_fp(d.title, d.start_ts, d.metro_id)
           event_dict == [d EXCEPT !.fingerprint = fp]
       IN  IF ~d.ok \/ fp = NoFp
           THEN /\ t.aborted \/ ~RowLockedByOther(w, raw_event_row.id)
                /\ txn' = [txn EXCEPT ![w] = mark_raw_event_status(t, raw_event_row.id, "error")]
                /\ npc' = [npc EXCEPT ![w] = AfterRow(w)]
                /\ batch' = [batch EXCEPT ![w] = Tail(@)]
                /\ UNCHANGED rowcount
           ELSE IF t.aborted
           THEN /\ txn' = [txn EXCEPT ![w] = t]
                /\ npc' = [npc EXCEPT ![w] = "insert_failed"]
                /\ UNCHANGED <<batch, rowcount>>
           ELSE /\ ~KeyHeldByOther(w, event_dict.metro_id, fp)
                /\ IF ConflictsClean(event_dict, event_clean \cup t.clean)
                   THEN /\ rowcount' = [rowcount EXCEPT ![w] = 0]
                        /\ txn' = [txn EXCEPT ![w] = t]
                   ELSE /\ rowcount' = [rowcount EXCEPT ![w] = 1]
                        /\ txn' = [txn EXCEPT ![w] =
                                      [t EXCEPT !.clean = @ \cup {CleanRow(event_dict)}]]
                /\ npc' = [npc EXCEPT ![w] = "mark"]
                /\ UNCHANGED batch
    /\ db_errors' = IF fails THEN [db_errors EXCEPT !.lookup = @ + 1] ELSE db_errors
    /\ UNCHANGED <<event_raw, event_clean, raw_events_batch, pvars, xvars>>

Normalize(w) ==
    /\ npc[w] = "process"
    /\ batch[w] /= <<>>
    /\ \E g \in Answers(Head(batch[w]), ~txn[w].aborted) :
           /\ Transform(w, g[1], g[2], FALSE)
           /\ geocoded' = [geocoded EXCEPT
                 ![w] = GeocodeCalls(Head(batch[w]), g[1], g[2], ~txn[w].aborted)]

\* The same with a metro lookup failing in the store.
NormalizeLookupFails(w) ==
    /\ npc[w] = "process"
    /\ batch[w] /= <<>>
    /\ \E g \in Answers(Head(batch[w]), FALSE) :
           /\ Transform(w, g[1], g[2], TRUE)
           /\ geocoded' = [geocoded EXCEPT
                 ![w] = GeocodeCalls(Head(batch[w]), g[1], g[2], FALSE)]

\* The INSERT of line 544 raises psycopg2.Error because the store fails the statement
\* (the row's transformation went through).
InsertCleanFails(w) ==
    /\ npc[w] = "process"
    /\ batch[w] /= <<>>
    /\ ~txn[w].aborted
    /\ DbErrorCount < MaxDbErrors
    /\ \E g \in Answers(Head(batch[w]), TRUE) :
           LET d == process_raw_event(Head(batch[w]), g[1], g[2], TRUE)
           IN  /\ d.ok /\ make_fp(d.title, d.start_ts, d.metro_id) /= NoFp
               /\ geocoded' = [geocoded EXCEPT
                     ![w] = GeocodeCalls(Head(batch[w]), g[1], g[2], TRUE)]
    /\ db_errors' = [db_errors EXCEPT !.insert = @ + 1]
    /\ npc' = [npc EXCEPT ![w] = "insert_failed"]
    /\ txn' = [txn EXCEPT ![w] = AbortedTxn]
    /\ UNCHANGED <<event_raw, event_clean, batch, raw_events_batch, rowcount, pvars, xvars>>

\* Lines 573-575: except psycopg2.Error: db_conn.rollback() undoes the transaction,
\* that is every uncommitted write of the batch so far.
RollbackOnError(w) ==
    /\ npc[w] = "insert_failed"
    /\ txn' = [txn EXCEPT ![w] = NoTxn]
    /\ npc' = [npc EXCEPT ![w] = "errmark"]
    /\ UNCHANGED <<event_raw, event_clean, batch, raw_events_batch, rowcount, db_errors, pvars, geocoded, xvars>>

\* Variant: the status written does not look at cur.rowcount.
StatusAlwaysProcessed(rc) == "processed"

\* Lines 546-551: 'processed' when the INSERT created a row, else 'duplicate'.
StatusForRowcount(rc) == IF rc > 0 THEN "processed" ELSE "duplicate"

\* Lines 546-552: mark the row with the status its INSERT decides.
\* fails: the UPDATE fails in the store; mark_raw_event_status swallows the error.
MarkStatus(w, fails) ==
    /\ npc[w] = "mark"
    /\ fails => DbErrorCount < MaxDbErrors /\ ~txn[w].aborted
    /\ LET id == Head(batch[w]).id
           status == StatusForRowcount(rowcount[w])
       IN  IF fails
           THEN txn' = [txn EXCEPT ![w] = AbortedTxn]
           ELSE /\ ~RowLockedByOther(w, id)
                /\ txn' = [txn EXCEPT ![w] = mark_raw_event_status(@, id, status)]
    /\ db_errors' = IF fails THEN [db_errors EXCEPT !.mark = @ + 1] ELSE db_errors
    /\ npc' = [npc EXCEPT ![w] = AfterRow(w)]
    /\ batch' = [batch EXCEPT ![w] = Tail(@)]
    /\ rowcount' = [rowcount EXCEPT ![w] = 0]
    /\ UNCHANGED <<event_raw, event_clean, raw_events_batch, pvars, geocoded, xvars>>

Mark(w) == npc[w] = "mark" /\ MarkStatus(w, FALSE)

MarkFails(w) == npc[w] = "mark" /\ MarkStatus(w, TRUE)

\* Lines 576-584: after the rollback, mark the row 'error' on a cursor of its own and
\* commit. fails: that UPDATE fails too (swallowed; the commit then commits nothing).
ErrMarkStatus(w, fails) ==
    /\ npc[w] = "errmark"
    /\ fails => DbErrorCount < MaxDbErrors
    /\ LET id == Head(batch[w]).id
       IN  IF fails
           THEN UNCHANGED event_raw
           ELSE /\ ~RowLockedByOther(w, id)
                /\ event_raw' = ApplyMarks(event_raw, {[id |-> id, status |-> "error"]})
    /\ db_errors' = IF fails THEN [db_errors EXCEPT !.errmark = @ + 1] ELSE db_errors
    /\ npc' = [npc EXCEPT ![w] = AfterRow(w)]
    /\ batch' = [batch EXCEPT ![w] = Tail(@)]
    /\ UNCHANGED <<event_clean, raw_events_batch, rowcount, txn, pvars, geocoded, xvars>>

MarkErrorAfterRollback(w) == npc[w] = "errmark" /\ ErrMarkStatus(w, FALSE)

MarkErrorAfterRollbackFails(w) == npc[w] = "errmark" /\ ErrMarkStatus(w, TRUE)

\* Lines 601-608: db_conn.commit() after the for loop. COMMIT of an aborted
\* transaction rolls it back.
CommitBatch(w) ==
    /\ npc[w] = "commit"
    /\ IF txn[w].aborted
       THEN UNCHANGED <<event_raw, event_clean>>
       ELSE /\ event_raw' = ApplyMarks(event_raw, txn[w].marks)
            /\ event_clean' = event_clean \cup txn[w].clean
    /\ txn' = [txn EXCEPT ![w] = NoTxn]
    /\ npc' = [npc EXCEPT ![w] = "idle"]
    /\ raw_events_batch' = [raw_events_batch EXCEPT ![w] = <<>>]
    /\ geocoded' = [geocoded EXCEPT ![w] = <<>>]
    /\ UNCHANGED <<batch, rowcount, db_errors, pvars, xvars>>

\* The statement worker w executes next when the geocoder answers g1 and g2: the
\* INSERT of a key, the UPDATE of a row, or nothing that takes a lock.
NextStatement(w, g1, g2) ==
    IF npc[w] = "mark" \/ npc[w] = "errmark"
    THEN [kind |-> "update", id |-> Head(batch[w]).id, metro_id |-> NULL, fingerprint |-> NoFp]
    ELSE IF npc[w] = "process" /\ batch[w] /= <<>> /\ ~txn[w].aborted
    THEN LET d == process_raw_event(Head(batch[w]), g1, g2, TRUE)
             fp == make_fp(d.title, d.start_ts, d.metro_id)
         IN  IF ~d.ok \/ fp = NoFp
             THEN [kind |-> "update", id |-> Head(batch[w]).id, metro_id |-> NULL,
                   fingerprint |-> NoFp]
             ELSE [kind |-> "insert", id |-> 0, metro_id |-> d.metro_id, fingerprint |-> fp]
    ELSE [kind |-> "none", id |-> 0, metro_id |-> NULL, fingerprint |-> NoFp]

\* The statement st waits for a lock the transaction of worker o holds.
HeldBy(st, o) ==
    \/ st.kind = "update" /\ \E m \in txn[o].marks : m.id = st.id
    \/ st.kind = "insert" /\ \E c \in txn[o].clean : SameKey(c, st)

\* Worker w may be waiting for worker o.
WaitsFor(w, o) ==
    \E g1, g2 \in GeocodeAnswers : HeldBy(NextStatement(w, g1, g2), o)

\* Worker w waits for o with a statement of the given kind while o waits for w: the
\* store's deadlock detector fails the statement of w. g holds the answers of the
\* geocode_address calls of the process_raw_event before the statement.
DeadlockVictimAt(w, kind, g) ==
    \E o \in Workers \ {w} :
        /\ WaitsFor(o, w)
        /\ NextStatement(w, g[1], g[2]).kind = kind
        /\ HeldBy(NextStatement(w, g[1], g[2]), o)

HeadAnswers(w) ==
    IF npc[w] = "process" THEN Answers(Head(batch[w]), TRUE) ELSE {<<NoPoint, NoPoint>>}

DeadlockVictim(w, kind) == \E g \in HeadAnswers(w) : DeadlockVictimAt(w, kind, g)

\* The INSERT of line 544 is the victim: psycopg2.Error is raised.
DeadlockOnInsert(w) ==
    /\ npc[w] = "process"
    /\ \E g \in HeadAnswers(w) :
           /\ DeadlockVictimAt(w, "insert", g)
           /\ geocoded' = [geocoded EXCEPT
                 ![w] = GeocodeCalls(Head(batch[w]), g[1], g[2], TRUE)]
    /\ npc' = [npc EXCEPT ![w] = "insert_failed"]
    /\ txn' = [txn EXCEPT ![w] = AbortedTxn]
    /\ UNCHANGED <<event_raw, event_clean, batch, raw_events_batch, rowcount, db_errors, pvars, xvars>>

\* The UPDATE of mark_raw_event_status(.., 'error') for a row that yields no dict or
\* no fingerprint is the victim: the error is swallowed.
DeadlockOnErrorMark(w) ==
    /\ npc[w] = "process"
    /\ \E g \in HeadAnswers(w) :
           /\ DeadlockVictimAt(w, "update", g)
           /\ geocoded' = [geocoded EXCEPT
                 ![w] = GeocodeCalls(Head(batch[w]), g[1], g[2], TRUE)]
    /\ npc' = [npc EXCEPT ![w] = AfterRow(w)]
    /\ batch' = [batch EXCEPT ![w] = Tail(@)]
    /\ txn' = [txn EXCEPT ![w] = AbortedTxn]
    /\ UNCHANGED <<event_raw, event_clean, raw_events_batch, rowcount, db_errors, pvars, xvars>>

\* The UPDATE of mark_raw_event_status after the INSERT is the victim: swallowed.
DeadlockOnMark(w) ==
    /\ npc[w] = "mark"
    /\ DeadlockVictim(w, "update")
    /\ npc' = [npc EXCEPT ![w] = AfterRow(w)]
    /\ batch' = [batch EXCEPT ![w] = Tail(@)]
    /\ rowcount' = [rowcount EXCEPT ![w] = 0]
    /\ txn' = [txn EXCEPT ![w] = AbortedTxn]
    /\ UNCHANGED <<event_raw, event_clean, raw_events_batch, db_errors, pvars, geocoded, xvars>>

(* ---------------------------------------------------------------------- *)
(* reset_event_121_status.py                                               *)
(* ---------------------------------------------------------------------- *)

\* reset_event_status(event_id): UPDATE event_raw SET normalized_at = NULL,
\* normalization_status = NULL WHERE id = event_id; commit.
reset_event_status(event_id) ==
    /\ event_id \in RawIds
    /\ event_raw[event_id].normalized_at /= NoTime
    /\ \A w \in Workers : \A m \in txn[w].marks : m.id /= event_id
    /\ Len(resets) < MaxResets
    /\ resets' = Append(resets, [id |-> event_id,
                                 status |-> event_raw[event_id].normalization_status])
    /\ event_raw' = [event_raw EXCEPT ![event_id].normalized_at = NoTime,
                                      ![event_id].normalization_status = NULL]
    /\ UNCHANGED <<event_clean, nvars, db_errors, jsonld_raw, deliveries, ppc, ppkg, ptxn, stats, geocoded, xvars>>

(* ---------------------------------------------------------------------- *)
(* event_parser.py: search-result rows parsed straight into event_clean    *)
(* ---------------------------------------------------------------------- *)

\* A raw row holding a search result: its events section lists the same event twice.
Serp == Blob("serp", NULL, NULL, NULL, NULL, NoLocation, NULL)

\* A search result without an events section.
SerpEmpty == Blob("serp_empty", NULL, NULL, NULL, NULL, NoLocation, NULL)

SerpRow(id, payload) ==
    [id |-> id, source |-> "dataforseo_serp", source_event_id |-> "serp-1",
     metro_id |-> "m1", raw_json |-> payload, parsed_at |-> NoTime,
     normalized_at |-> NoTime, normalization_status |-> NULL]

\* hashlib.sha256(s.encode()).hexdigest() cut to 16 characters by
\* store_events_in_event_clean, of the string "title|start_ts|venue_name|metro_id":
\* represented by the parts of the string.
Sha256Hex16(title, start_ts, venue_name, metro_id) ==
    <<title, start_ts.day, start_ts.time, venue_name, metro_id>>

\* extract_events_from_json(raw_record): the event dicts of the items of the events
\* section, in the order of the items; source_event_id is "<source_event_id>_<index>".
extract_events_from_json(raw_record) ==
    LET start_ts == [day |-> "2024-07-20", time |-> "20:00:00"]
        item(k) ==
            [event_raw_id |-> raw_record.id, source |-> raw_record.source,
             source_event_id |-> k,
             title |-> "Salsa Night", start_ts |-> start_ts,
             venue_name |-> "Example Hall", venue_address |-> <<"Example Hall Springfield">>,
             venue_geom |-> NoPoint, metro_id |-> raw_record.metro_id,
             fingerprint |-> Sha256Hex16("Salsa Night", start_ts, "Example Hall",
                                         raw_record.metro_id)]
    IN  IF raw_record.raw_json = Serp THEN <<item("serp-1_0"), item("serp-1_1")>> ELSE <<>>

\* INSERT INTO event_clean ... VALUES %s ON CONFLICT (metro_id, fingerprint) DO NOTHING:
\* the rows of the statement one after the other.
RECURSIVE InsertValues(_, _)
InsertValues(events, rows) ==
    IF events = <<>>
    THEN rows
    ELSE InsertValues(Tail(events),
                      IF ConflictsClean(Head(events), rows)
                      THEN rows
                      ELSE rows \cup {Head(events)})

\* get_unparsed_event_raws: WHERE source = 'dataforseo_serp' AND parsed_at IS NULL
Unparsed(rows) ==
    {i \in 1..Len(rows) : rows[i].source = "dataforseo_serp" /\ rows[i].parsed_at = NoTime}

\* main() for one unparsed record: store_events_in_event_clean inserts the extracted
\* events and sets parsed_at and normalization_status = 'processed' on the raw row in
\* one transaction; a record that yields no event is marked 'no_events'.
store_events_in_event_clean(event_raw_id) ==
    /\ event_raw_id \in Unparsed(event_raw)
    /\ LET events == extract_events_from_json(event_raw[event_raw_id])
       IN  /\ \A k \in 1..Len(events) :
                  \A w \in Workers : ~ConflictsClean(events[k], txn[w].clean)
           /\ event_clean' = InsertValues(events, event_clean)
           /\ event_raw' = [event_raw EXCEPT
                  ![event_raw_id].parsed_at = Len(event_raw) + 1,
                  ![event_raw_id].normalization_status =
                      IF events = <<>> THEN "no_events" ELSE "processed"]
    /\ UNCHANGED <<nvars, db_errors, pvars, geocoded, xvars>>

(* ---------------------------------------------------------------------- *)
(* Producers of event_raw                                                  *)
(*   parse workers                     worker_parse.py                     *)
(*   insert_into_event_raw             discovery_enhanced_events_only.py   *)
(*   insert_raw_event                  eventbrite/meetup/tm collectors     *)
(* ---------------------------------------------------------------------- *)
Discoverers == {"d1", "d2"}
Collectors == {"e1", "e2"}
Producers == ParseWorkers \cup Discoverers \cup Collectors

\* Packages that reach jsonld_raw.
Packages ==
    {PkgSalsaA, PkgSalsaB, PkgBlank, PkgOnline,
     PkgNoStart, PkgNotEvent, PkgNoMetro, PkgNoUrl, PkgNoName}

\* Result items the discovery script persists: the same item id seen in the results
\* of two tasks, and another item.
ItemA1 == Blob("event_item", "Salsa Night", "Sat, Jul 20", NULL, "task-1", NoLocation, NULL)
ItemA2 == Blob("event_item", "Salsa Night", "Sat, Jul 20", NULL, "task-2", NoLocation, NULL)
ItemB1 == Blob("event_item", "Tango Tea", "Sun, Jul 21", NULL, "task-1", NoLocation, NULL)

\* Arguments of insert_into_event_raw / insert_raw_event: source, source_event_id,
\* metro_id, payload.
Call(source, source_event_id, metro_id, payload) ==
    [source |-> source, source_event_id |-> source_event_id, metro_id |-> metro_id,
     payload |-> payload]

DiscoveryCalls ==
    {Call("dataforseo_event_item", "item-a", "m1", ItemA1),
     Call("dataforseo_event_item", "item-a", "m1", ItemA2),
     Call("dataforseo_event_item", "item-b", "m1", ItemB1)}

CollectorCalls ==
    {Call("eventbrite", "eb-1", "m1", ItemA1),
     Call("eventbrite", "eb-1", "m2", ItemA2),
     Call("eventbrite", "eb-2", "m1", ItemB1)}

\* The row of INSERT INTO event_raw (source, source_event_id, metro_id, raw_json,
\* discovered_at): parsed_at stays NULL.
CallRow(c, id) ==
    [id |-> id, source |-> c.source, source_event_id |-> c.source_event_id,
     metro_id |-> c.metro_id, raw_json |-> c.payload, parsed_at |-> NoTime,
     normalized_at |-> NoTime, normalization_status |-> NULL]

NoRow == CallRow(Call(NULL, NULL, NULL, Blob(NULL, NULL, NULL, NULL, NULL, NoLocation, NULL)), 0)

NoStats == [processed |-> 0, inserted |-> 0, skipped |-> 0, failed |-> 0, ret |-> NULL]

\* A row another producer has inserted under the same non-null key and not yet
\* committed: the INSERT waits for that transaction to end.
RawKeyHeldByOther(p, row) ==
    \E o \in Producers \ {p} : ConflictsRaw(row, ptxn[o])

\* rpush of a package onto jsonld_raw (the fetch worker, or a redelivery).
Publish(pkg) ==
    /\ deliveries < MaxDeliveries
    /\ deliveries' = deliveries + 1
    /\ jsonld_raw' = Append(jsonld_raw, pkg)
    /\ UNCHANGED <<event_raw, event_clean, nvars, db_errors, resets, ppc, ppkg, ptxn, stats, geocoded, xvars>>

\* worker_parse lines 93-150: pop a package and run the admission checks.
ParsePop(p) ==
    /\ p \in ParseWorkers
    /\ ppc[p] = "idle"
    /\ jsonld_raw /= <<>>
    /\ jsonld_raw' = Tail(jsonld_raw)
    /\ LET record == Head(jsonld_raw)
       IN  IF Admits(record)
           THEN /\ ppkg' = [ppkg EXCEPT ![p] = ParseRow(record, 0, 0)]
                /\ ppc' = [ppc EXCEPT ![p] = "insert"]
                /\ stats' = [stats EXCEPT ![p].processed = @ + 1]
           ELSE /\ stats' = [stats EXCEPT ![p].processed = @ + 1, ![p].skipped = @ + 1]
                /\ UNCHANGED <<ppkg, ppc>>
    /\ UNCHANGED <<event_raw, event_clean, nvars, db_errors, resets, deliveries, ptxn, geocoded, xvars>>

\* A call of insert_into_event_raw.
DiscoveryCall(p, c) ==
    /\ p \in Discoverers
    /\ ppc[p] = "idle"
    /\ deliveries < MaxDeliveries
    /\ deliveries' = deliveries + 1
    /\ ppkg' = [ppkg EXCEPT ![p] = CallRow(c, 0)]
    /\ ppc' = [ppc EXCEPT ![p] = "insert"]
    /\ stats' = [stats EXCEPT ![p].ret = NULL]
    /\ UNCHANGED <<event_raw, event_clean, nvars, db_errors, resets, jsonld_raw, ptxn, geocoded, xvars>>

\* A call of a collector's insert_raw_event.
CollectorCall(p, c) ==
    /\ p \in Collectors
    /\ ppc[p] = "idle"
    /\ deliveries < MaxDeliveries
    /\ deliveries' = deliveries + 1
    /\ ppkg' = [ppkg EXCEPT ![p] = CallRow(c, 0)]
    /\ ppc' = [ppc EXCEPT ![p] = "insert"]
    /\ stats' = [stats EXCEPT ![p].ret = NULL]
    /\ UNCHANGED <<event_raw, event_clean, nvars, db_errors, resets, jsonld_raw, ptxn, geocoded, xvars>>

\* INSERT INTO event_raw ... ON CONFLICT (source, source_event_id) DO NOTHING
\* (worker_parse 161-181 with RETURNING id and the counters; the other producers
\* execute the statement and look at nothing).
InsertRaw(p) ==
    /\ ppc[p] = "insert"
    /\ ~RawKeyHeldByOther(p, ppkg[p])
    /\ IF ConflictsRaw(ppkg[p], SeqToSet(event_raw))
       THEN /\ UNCHANGED ptxn
            /\ stats' = IF p \in ParseWorkers
                        THEN [stats EXCEPT ![p].skipped = @ + 1]
                        ELSE stats
       ELSE /\ ptxn' = [ptxn EXCEPT ![p] = {ppkg[p]}]
            /\ stats' = IF p \in ParseWorkers
                        THEN [stats EXCEPT ![p].inserted = @ + 1]
                        ELSE stats
    /\ ppc' = [ppc EXCEPT ![p] = "commit"]
    /\ UNCHANGED <<event_raw, event_clean, nvars, db_errors, resets, jsonld_raw, deliveries, ppkg, geocoded, xvars>>

\* The statement raises psycopg2.Error: rollback; fail_count += 1 / return False.
InsertRawFails(p) ==
    /\ ppc[p] = "insert"
    /\ DbErrorCount < MaxDbErrors
    /\ db_errors' = [db_errors EXCEPT !.raw = @ + 1]
    /\ stats' = IF p \in ParseWorkers
                THEN [stats EXCEPT ![p].failed = @ + 1]
                ELSE [stats EXCEPT ![p].ret = "False"]
    /\ ppc' = [ppc EXCEPT ![p] = "idle"]
    /\ ppkg' = [ppkg EXCEPT ![p] = NoRow]
    /\ UNCHANGED <<event_raw, event_clean, nvars, resets, jsonld_raw, deliveries, ptxn, geocoded, xvars>>

\* db_conn.commit(); the id is the next value of the table's sequence and parsed_at,
\* where the producer sets it, the time of the insert.
CommitRaw(p) ==
    /\ ppc[p] = "commit"
    /\ LET id == Len(event_raw) + 1
           Stamp(r) == [r EXCEPT !.id = id,
                                 !.parsed_at = IF p \in ParseWorkers THEN id ELSE NoTime]
       IN  event_raw' = IF ptxn[p] = {}
                        THEN event_raw
                        ELSE Append(event_raw, Stamp(CHOOSE r \in ptxn[p] : TRUE))
    /\ ptxn' = [ptxn EXCEPT ![p] = {}]
    /\ stats' = IF p \in ParseWorkers THEN stats ELSE [stats EXCEPT ![p].ret = "True"]
    /\ ppc' = [ppc EXCEPT ![p] = "idle"]
    /\ ppkg' = [ppkg EXCEPT ![p] = NoRow]
    /\ UNCHANGED <<event_clean, nvars, db_errors, resets, jsonld_raw, deliveries, geocoded, xvars>>

(* ---------------------------------------------------------------------- *)
(* worker_fetch.py: url_queue -> page -> jsonld_raw                        *)
(* ---------------------------------------------------------------------- *)
Fetchers == {"f1", "f2"}
MaxUrls == 3

\* The package the discovery script pushes onto url_queue.
UrlPackage(url, metro_id, dance_style_context) ==
    [url |-> url, metro_id |-> metro_id, dance_style_context |-> dance_style_context]

UrlPackages ==
    {UrlPackage("https://a.example/page", "m1", "salsa"),
     UrlPackage("https://b.example/page", "m2", "cuban salsa"),
     UrlPackage("https://a.example/page", NULL, NULL),
     UrlPackage(NULL, "m1", "salsa")}

\* What loading a page and extracting its JSON-LD comes to: browser.new_page()
\* raises, page.goto raises (timeout, navigation error), extruct raises, or the list
\* of blobs found.
PageResult(kind, json_ld) == [kind |-> kind, json_ld |-> json_ld]
PageResults ==
    {PageResult("no_page", <<>>), PageResult("goto_error", <<>>),
     PageResult("extract_error", <<>>), PageResult("ok", <<>>),
     PageResult("ok", <<SalsaA>>), PageResult("ok", <<SalsaB, NotEvent>>),
     PageResult("ok", <<Blank, Blank>>)}

NoUrlData == UrlPackage(NULL, NULL, NULL)
IdleFetcher ==
    [pc |-> "idle", url_data |-> NoUrlData, page |-> "none", outcome |-> NULL,
     extracted_data |-> <<>>, pushed |-> 0, processed_count |-> 0, fail_count |-> 0]

\* Variant: the package without the search-term context.
output_package_without_style(url_to_fetch, source_metro_id, source_dance_style, blob) ==
    [original_url |-> url_to_fetch, source_metro_id |-> source_metro_id,
     source_dance_style |-> NULL, blob |-> blob]

\* output_package of worker_fetch 97-102.
output_package(url_to_fetch, source_metro_id, source_dance_style, blob) ==
    [original_url |-> url_to_fetch, source_metro_id |-> source_metro_id,
     source_dance_style |-> source_dance_style, blob |-> blob]

\* Variant: a failed page is left open.
AfterErrorLeaveOpen(page) == "idle"

\* Where the loop goes after an except clause: finally closes the page if one was
\* opened.
AfterError(page) == IF page = "open" THEN "close" ELSE "idle"

\* rpush of a package onto url_queue (the discovery script).
PublishUrl(pkg) ==
    /\ urls_pushed < MaxUrls
    /\ urls_pushed' = urls_pushed + 1
    /\ url_queue' = Append(url_queue, pkg)
    /\ UNCHANGED <<event_raw, event_clean, nvars, db_errors, pvars, geocoded, fp_run,
                   venue_cache, api_usage_tracking, resolver, places_calls, resolved, fetcher, submit, zvars>>

\* worker_fetch 50-71: lpop and the parse of the package.
FetchPop(f) ==
    /\ fetcher[f].pc = "idle"
    /\ url_queue /= <<>>
    /\ url_queue' = Tail(url_queue)
    /\ LET url_data == Head(url_queue)
       IN  fetcher' = IF Truthy(url_data.url)
                      THEN [fetcher EXCEPT ![f].pc = "goto", ![f].url_data = url_data]
                      ELSE [fetcher EXCEPT ![f].fail_count = @ + 1]
    /\ UNCHANGED <<event_raw, event_clean, nvars, db_errors, pvars, geocoded, fp_run,
                   venue_cache, api_usage_tracking, resolver, places_calls, resolved,
                   urls_pushed, submit, zvars>>

\* worker_fetch 77-113 up to the for loop: new_page, goto, content, extruct.extract,
\* and the except clauses.
FetchPage(f, res) ==
    /\ fetcher[f].pc = "goto"
    /\ LET page == IF res.kind = "no_page" THEN "none" ELSE "open"
       IN  fetcher' =
             IF res.kind /= "ok"
             THEN [fetcher EXCEPT ![f].page = page, ![f].fail_count = @ + 1,
                                  ![f].outcome = IF AfterError(page) = "idle"
                                                 THEN NULL ELSE res.kind,
                                  ![f].pc = AfterError(page),
                                  ![f].url_data = IF AfterError(page) = "idle"
                                                  THEN NoUrlData ELSE @]
             ELSE [fetcher EXCEPT ![f].page = page,
                                  ![f].outcome = res.kind,
                                  ![f].extracted_data = res.json_ld,
                                  ![f].pc = IF res.json_ld /= <<>> THEN "push" ELSE "close"]
    /\ UNCHANGED <<event_raw, event_clean, nvars, db_errors, pvars, geocoded, fp_run,
                   venue_cache, api_usage_tracking, resolver, places_calls, resolved,
                   url_queue, urls_pushed, submit, zvars>>

\* worker_fetch 95-104: one turn of the for loop, and processed_count after the last.
FetchPush(f) ==
    /\ fetcher[f].pc = "push"
    /\ LET u == fetcher[f].url_data
           blob == Head(fetcher[f].extracted_data)
           rest == Tail(fetcher[f].extracted_data)
       IN  /\ jsonld_raw' = Append(jsonld_raw,
                                   output_package(u.url, u.metro_id, u.dance_style_context, blob))
           /\ fetcher' = IF rest = <<>>
                          THEN [fetcher EXCEPT ![f].extracted_data = rest,
                                               ![f].pushed = @ + 1,
                                               ![f].processed_count = @ + 1,
                                               ![f].pc = "close"]
                          ELSE [fetcher EXCEPT ![f].extracted_data = rest,
                                               ![f].pushed = @ + 1]
    /\ UNCHANGED <<event_raw, event_clean, nvars, db_errors, resets, deliveries, ppc, ppkg,
                   ptxn, stats, geocoded, fp_run, venue_cache, api_usage_tracking, resolver,
                   places_calls, resolved, url_queue, urls_pushed, submit, zvars>>

\* worker_fetch 114-116: finally, page.close().
FetchClose(f) ==
    /\ fetcher[f].pc = "close"
    /\ fetcher' = [fetcher EXCEPT ![f].page = "none", ![f].pc = "idle", ![f].pushed = 0,
                                  ![f].outcome = NULL, ![f].url_data = NoUrlData]
    /\ UNCHANGED <<event_raw, event_clean, nvars, db_errors, pvars, geocoded, fp_run,
                   venue_cache, api_usage_tracking, resolver, places_calls, resolved,
                   url_queue, urls_pushed, submit, zvars>>

(* ---------------------------------------------------------------------- *)
(* worker_fetch.py, worker_parse.py: the end of a worker                   *)
(* ---------------------------------------------------------------------- *)
MaxStops == 1

\* KeyboardInterrupt raised in worker_fetch, wherever its loop stands: it is no
\* Exception, so the clauses of 108-113 let it through, finally closes the page
\* (114-116), the clause of 125-127 leaves the loop and 132-135 close the browser.
\* What the worker held stays in the record of the stopped worker.
FetchInterrupt(f) ==
    /\ fetcher[f].pc \in {"idle", "goto", "push", "close"}
    /\ stops < MaxStops
    /\ stops' = stops + 1
    /\ fetcher' = [fetcher EXCEPT ![f].pc = "stopped", ![f].page = "none"]
    /\ UNCHANGED <<event_raw, event_clean, nvars, db_errors, pvars, geocoded, fp_run,
                   venue_cache, api_usage_tracking, resolver, places_calls, resolved,
                   url_queue, urls_pushed, submit, poll, retrieved, uvars>>

\* The process of a fetch worker is killed (or, under run_workers.py, its daemon
\* thread ends with the main thread, 85-87 and 116-118): no clause runs.
FetchKill(f) ==
    /\ fetcher[f].pc \in {"idle", "goto", "push", "close"}
    /\ stops < MaxStops
    /\ stops' = stops + 1
    /\ fetcher' = [fetcher EXCEPT ![f].pc = "killed", ![f].page = "none"]
    /\ UNCHANGED <<event_raw, event_clean, nvars, db_errors, pvars, geocoded, fp_run,
                   venue_cache, api_usage_tracking, resolver, places_calls, resolved,
                   url_queue, urls_pushed, submit, poll, retrieved, uvars>>

\* worker_fetch is started again: 33-45.
FetchRestart(f) ==
    /\ fetcher[f].pc \in {"stopped", "killed"}
    /\ fetcher' = [fetcher EXCEPT ![f] = IdleFetcher]
    /\ UNCHANGED <<event_raw, event_clean, nvars, db_errors, pvars, geocoded, fp_run,
                   venue_cache, api_usage_tracking, resolver, places_calls, resolved,
                   url_queue, urls_pushed, submit, zvars>>

\* KeyboardInterrupt raised in worker_parse, wherever its loop stands: the clauses
\* of 188-200 let it through, finally closes the cursor, the clause of 218-220
\* leaves the loop and db_conn.close() (227-228) discards what was not committed.
\* The row the worker held stays in ppkg.
ParseInterrupt(p) ==
    /\ p \in ParseWorkers
    /\ ppc[p] \in {"idle", "insert", "commit"}
    /\ stops < MaxStops
    /\ stops' = stops + 1
    /\ ppc' = [ppc EXCEPT ![p] = "stopped"]
    /\ ptxn' = [ptxn EXCEPT ![p] = {}]
    /\ UNCHANGED <<event_raw, event_clean, nvars, db_errors, resets, jsonld_raw, deliveries,
                   ppkg, stats, geocoded, fp_run, venue_cache, api_usage_tracking, resolver,
                   places_calls, resolved, url_queue, urls_pushed, fetcher, submit, poll,
                   retrieved, uvars>>

\* The process of a parse worker is killed: the server rolls its transaction back.
ParseKill(p) ==
    /\ p \in ParseWorkers
    /\ ppc[p] \in {"idle", "insert", "commit"}
    /\ stops < MaxStops
    /\ stops' = stops + 1
    /\ ppc' = [ppc EXCEPT ![p] = "killed"]
    /\ ptxn' = [ptxn EXCEPT ![p] = {}]
    /\ UNCHANGED <<event_raw, event_clean, nvars, db_errors, resets, jsonld_raw, deliveries,
                   ppkg, stats, geocoded, fp_run, venue_cache, api_usage_tracking, resolver,
                   places_calls, resolved, url_queue, urls_pushed, fetcher, submit, poll,
                   retrieved, uvars>>

\* worker_parse is started again: 62-68.
ParseRestart(p) ==
    /\ p \in ParseWorkers
    /\ ppc[p] \in {"stopped", "killed"}
    /\ ppc' = [ppc EXCEPT ![p] = "idle"]
    /\ ppkg' = [ppkg EXCEPT ![p] = NoRow]
    /\ stats' = [stats EXCEPT ![p] = NoStats]
    /\ UNCHANGED <<event_raw, event_clean, nvars, db_errors, resets, jsonld_raw, deliveries,
                   ptxn, geocoded, xvars>>

(* ---------------------------------------------------------------------- *)
(* discovery_enhanced_events_only.py: batch_api_tasks                      *)
(* Strings the code splits and joins are sequences of tokens: words, " "   *)
(* and "_".                                                                *)
(* ---------------------------------------------------------------------- *)
MAX_TASKS_PER_POST_ARRAY == 100

\* A row of cities_df.
City(geonameid, name, location_code, language_code) ==
    [geonameid |-> geonameid, name |-> name, location_code |-> location_code,
     language_code |-> language_code]
NewYork == City(11, "New York", "1023191.0", "en")
London == City(22, "London", "1006886.0", "en")
Havana == City(33, "Havana", NULL, "es")

\* The argument cities_df: the rows in any order, with and without a location_code.
CitiesDfs ==
    {<<>>, <<Havana>>, <<NewYork>>, <<NewYork, London>>, <<London, Havana, NewYork>>,
     <<Havana, NewYork, London>>}

\* broad_event_search_terms of main(), and longer lists of further terms.
broad_event_search_terms ==
    <<(<<"salsa">>), <<"kizomba">>, <<"bachata">>, <<"zouk">>, <<"coast", " ", "swing">>,
      <<"ballroom">>>>
BroadTerms(n) ==
    [k \in 1..n |-> IF k <= Len(broad_event_search_terms)
                    THEN broad_event_search_terms[k]
                    ELSE <<"dance", ToString(k)>>]
TermCounts == {0, 1, 5, 6, 50, 51, 101}

\* str.replace(' ', '_')
replace_space(text) == [k \in 1..Len(text) |-> IF text[k] = " " THEN "_" ELSE text[k]]

\* tag_content of batch_api_tasks 721.
tag_content(geonameid, term, lang, now) ==
    <<"city", "_", ToString(geonameid), "_", "term", "_">> \o replace_space(term)
        \o <<"_", "lang", "_", lang, "_", "run", "_", ToString(now)>>

\* int(city_info["location_code"]) on the float the column holds.
int_location_code(location_code) ==
    CASE location_code = "1023191.0" -> "1023191"
      [] location_code = "1006886.0" -> "1006886"
      [] OTHER -> NULL

\* task_payload of batch_api_tasks 723-730.
task_payload(city_info, term, now) ==
    [keyword |-> term \o <<" ", "in", " ", city_info.name>>,
     location_code |-> int_location_code(city_info.location_code),
     language_code |-> city_info.language_code,
     depth |-> 100,
     tag |-> tag_content(city_info.geonameid, term, city_info.language_code, now)]

\* The two nested loops of batch_api_tasks 709-731.
RECURSIVE post_data_array(_, _, _)
post_data_array(cities_df, broad_search_terms, now) ==
    IF cities_df = <<>> THEN <<>>
    ELSE (IF Head(cities_df).location_code = NULL
          THEN <<>>
          ELSE [k \in 1..Len(broad_search_terms) |->
                   task_payload(Head(cities_df), broad_search_terms[k], now)])
         \o post_data_array(Tail(cities_df), broad_search_terms, now)

\* str.split('_'): the parts of a text between its "_" tokens.
RECURSIVE split(_)
split(text) ==
    IF \A k \in 1..Len(text) : text[k] /= "_" THEN <<text>>
    ELSE LET k == CHOOSE k \in 1..Len(text) :
                      text[k] = "_" /\ \A j \in 1..(k - 1) : text[j] /= "_"
         IN  <<SubSeq(text, 1, k - 1)>> \o split(SubSeq(text, k + 1, Len(text)))

\* '_'.join(parts)
RECURSIVE join(_)
join(parts) ==
    IF parts = <<>> THEN <<>>
    ELSE IF Len(parts) = 1 THEN parts[1]
    ELSE parts[1] \o <<"_">> \o join(Tail(parts))

\* list.index(word): the first position of the part, 0 when it raises ValueError.
index(parts, word) ==
    IF \E k \in 1..Len(parts) : parts[k] = <<word>>
    THEN CHOOSE k \in 1..Len(parts) :
             parts[k] = <<word>> /\ \A j \in 1..(k - 1) : parts[j] /= <<word>>
    ELSE 0

\* int(text): the number a text of digits spells; is_int is false when it raises
\* ValueError.
GeonameIds == {11, 22, 33}
is_int(text) == \E n \in GeonameIds : text = <<ToString(n)>>
int(text) == CHOOSE n \in GeonameIds : text = <<ToString(n)>>

\* The metadata batch_api_tasks 781-814 rebuilds from the tag the API echoes.
TagParseFailed(original_payload_tag) ==
    [metro_id |-> NULL, city_name |-> "UnknownFromTagParse",
     dance_style |-> <<"UnknownTermFromTagParse">>, search_type |-> "event",
     original_tag |-> original_payload_tag]
metadata_from_tag(original_payload_tag, cities_df) ==
    LET parts == split(original_payload_tag)
        named == {k \in 1..Len(cities_df) : cities_df[k].geonameid = int(parts[2])}
    IN  IF Len(parts) < 2 \/ ~is_int(parts[2])
           \/ index(parts, "term") = 0 \/ index(parts, "lang") = 0
        THEN TagParseFailed(original_payload_tag)
        ELSE [metro_id |-> int(parts[2]),
              city_name |-> IF named = {} THEN "UnknownCity"
                            ELSE cities_df[CHOOSE k \in named : \A j \in named : k <= j].name,
              dance_style |-> join(SubSeq(parts, index(parts, "term") + 1,
                                          index(parts, "lang") - 1)),
              search_type |-> "event",
              original_tag |-> original_payload_tag]

NoSubmit ==
    [pc |-> "idle", cities_df |-> <<>>, broad_search_terms |-> <<>>, now |-> 0,
     post_data_array |-> <<>>, i |-> 0, posted |-> <<>>,
     all_task_ids_from_submission |-> <<>>, task_metadata_map |-> <<>>]

\* batch_api_tasks 696-735: the call and the building of post_data_array.
batch_api_tasks(cities_df, broad_search_terms, now) ==
    /\ submit.pc = "idle"
    /\ LET tasks == post_data_array(cities_df, broad_search_terms, now)
       IN  submit' = [NoSubmit EXCEPT !.pc = IF tasks = <<>> THEN "done" ELSE "post",
                                      !.cities_df = cities_df,
                                      !.broad_search_terms = broad_search_terms,
                                      !.now = now,
                                      !.post_data_array = tasks]
    /\ UNCHANGED <<event_raw, event_clean, nvars, db_errors, pvars, geocoded, fp_run,
                   venue_cache, api_usage_tracking, resolver, places_calls, resolved,
                   url_queue, urls_pushed, fetcher, zvars>>

\* The tasks array of the response to a chunk: the API gives each task an id and
\* echoes its data; a task's entry may lack the tag.
ResponseKinds == {"ok", "no_tag", "error"}
TaskId(position) == position
no_tag_in_response == <<"no", "_", "tag", "_", "in", "_", "response">>

\* Variant: a slice one task too long.
slice_one_more(array, i) ==
    SubSeq(array, i + 1,
           IF i + MAX_TASKS_PER_POST_ARRAY + 1 < Len(array)
           THEN i + MAX_TASKS_PER_POST_ARRAY + 1 ELSE Len(array))

\* post_data_array[i:i + MAX_TASKS_PER_POST_ARRAY]
slice(array, i) ==
    SubSeq(array, i + 1,
           IF i + MAX_TASKS_PER_POST_ARRAY < Len(array)
           THEN i + MAX_TASKS_PER_POST_ARRAY ELSE Len(array))

\* batch_api_tasks 755-824: one turn of the chunk loop: the request, and the ids and
\* metadata kept from its response.
PostChunk(kind) ==
    /\ submit.pc = "post"
    /\ LET chunk == slice(submit.post_data_array, submit.i)
           ids == [k \in 1..Len(chunk) |-> TaskId(submit.i + k)]
           meta == [k \in 1..Len(chunk) |->
                       [task_id |-> TaskId(submit.i + k),
                        metadata |-> metadata_from_tag(IF kind = "ok" THEN chunk[k].tag
                                                       ELSE no_tag_in_response,
                                                       submit.cities_df)]]
       IN  submit' = [submit EXCEPT
               !.posted = Append(@, chunk),
               !.i = @ + MAX_TASKS_PER_POST_ARRAY,
               !.pc = IF submit.i + MAX_TASKS_PER_POST_ARRAY < Len(submit.post_data_array)
                      THEN "post" ELSE "done",
               !.all_task_ids_from_submission = IF kind = "error" THEN @ ELSE @ \o ids,
               !.task_metadata_map = IF kind = "error" THEN @ ELSE @ \o meta]
    /\ UNCHANGED <<event_raw, event_clean, nvars, db_errors, pvars, geocoded, fp_run,
                   venue_cache, api_usage_tracking, resolver, places_calls, resolved,
                   url_queue, urls_pushed, fetcher, zvars>>

(* ---------------------------------------------------------------------- *)
(* discovery_enhanced_events_only.py: poll_task_results and the retrievals *)
(* outside the poll loop                                                   *)
(* ---------------------------------------------------------------------- *)
max_poll_attempts == 30
initial_poll_interval_seconds == 10000    \* in milliseconds
max_poll_interval_seconds == 60000

\* REQUEST_DELAY = float(os.getenv("REQUEST_DELAY", 2.0)), in milliseconds: the run
\* has the environment set it to 0, so that only the sleeps of the backoff count.
REQUEST_DELAY == 0

\* min(current_poll_interval_seconds * 1.5, max_poll_interval_seconds)
next_poll_interval(current_poll_interval_seconds) ==
    IF (current_poll_interval_seconds * 3) \div 2 < max_poll_interval_seconds
    THEN (current_poll_interval_seconds * 3) \div 2
    ELSE max_poll_interval_seconds

\* Task ids the API knows: two of this run, one of somebody else.
TaskIds == {"t1", "t2"}
ForeignTaskIds == {"t9"}

\* task_metadata_map as batch_api_tasks left it.
MetadataOf(task_id) ==
    [metro_id |-> "m1", city_name |-> "New York", dance_style |-> "salsa",
     search_type |-> "event", original_tag |-> <<"tag", task_id>>]

\* Items of a result block.
EventItem(event_id, url, title, start_datetime) ==
    [event_id |-> event_id, url |-> url, title |-> title, start_datetime |-> start_datetime]
ItemTickets == EventItem(NULL, "https://eventbrite.com/e/1?aff=x", "Salsa Night", "2024-07-20")
ItemNoUrl == EventItem(NULL, NULL, "Tango Tea", "2024-07-21")
ItemNoId == EventItem(NULL, NULL, NULL, NULL)

\* What task_get returns for a task once it is done: the first item is in the results
\* of both tasks.
ResultItems(task_id) ==
    IF task_id = "t1" THEN <<ItemTickets, ItemNoUrl, ItemNoId>> ELSE <<ItemTickets>>

\* hashlib.md5(f"{title}|{start_datetime}".encode()).hexdigest(), on the titles and
\* starts of the items above.
md5_hexdigest(title, start_datetime) ==
    IF title = "Tango Tea" /\ start_datetime = "2024-07-21" THEN "md5-tango-tea-0721"
    ELSE IF title = "Salsa Night" /\ start_datetime = "2024-07-20" THEN "md5-salsa-night-0720"
    ELSE "md5-other"

\* create_event_item_id: the event_id, else the url (without its query for a few
\* sites), else a hash of title and start, else None.
create_event_item_id(event_item) ==
    IF Truthy(event_item.event_id) THEN event_item.event_id
    ELSE IF Truthy(event_item.url)
         THEN (IF event_item.url = "https://eventbrite.com/e/1?aff=x"
               THEN "https://eventbrite.com/e/1" ELSE event_item.url)
    ELSE IF Truthy(event_item.title) /\ Truthy(event_item.start_datetime)
         THEN md5_hexdigest(event_item.title, event_item.start_datetime)
    ELSE NULL

\* payload_for_db: the item and the task it came from.
payload_for_db(item_data, task_id) ==
    Blob("event_item", item_data.title, item_data.start_datetime, item_data.url, task_id,
         NoLocation, NULL)

\* The insert_into_event_raw calls of the item loops (poll_task_results 1057-1103,
\* get_results_by_id_list 1440-1488, direct_retrieve_results 1596-1625).
ItemCalls(source, metro_id, task_id) ==
    LET items == SelectSeq(ResultItems(task_id),
                           LAMBDA item_data : create_event_item_id(item_data) /= NULL)
    IN  [k \in 1..Len(items) |->
            Call(source, create_event_item_id(items[k]), metro_id,
                 payload_for_db(items[k], task_id))]

\* insert_into_event_raw for each call in turn: INSERT ... ON CONFLICT (source,
\* source_event_id) DO NOTHING, commit.
RECURSIVE InsertCalls(_, _)
InsertCalls(rows, calls) ==
    IF calls = <<>> THEN rows
    ELSE InsertCalls(IF ConflictsRaw(CallRow(Head(calls), 0), SeqToSet(rows))
                     THEN rows
                     ELSE Append(rows, CallRow(Head(calls), Len(rows) + 1)),
                     Tail(calls))

NoPoll ==
    [pc |-> "idle", task_ids |-> {}, pending_task_ids |-> {}, attempts |-> 0,
     current_poll_interval_seconds |-> 0, ready_ids_from_api |-> {},
     ready_and_mine |-> <<>>, outcome |-> NULL, slept |-> 0, wait |-> 0]

\* poll_task_results 965-989.
poll_task_results(task_ids_with_metadata_map) ==
    /\ poll.pc = "idle"
    /\ poll' = IF task_ids_with_metadata_map = {}
               THEN [NoPoll EXCEPT !.pc = "done"]
               ELSE [NoPoll EXCEPT !.pc = "loop",
                                   !.task_ids = task_ids_with_metadata_map,
                                   !.pending_task_ids = task_ids_with_metadata_map,
                                   !.current_poll_interval_seconds =
                                        initial_poll_interval_seconds]
    /\ UNCHANGED <<event_raw, event_clean, nvars, db_errors, pvars, geocoded, fp_run,
                   venue_cache, api_usage_tracking, resolver, places_calls, resolved,
                   url_queue, urls_pushed, fetcher, submit, retrieved, stops, uvars>>

\* Variant: the round is not counted.
attempts_not_counted(attempts) == attempts

\* attempts += 1 at the top of each turn of the while loop.
attempts_after_round(attempts) == attempts + 1

\* The orders list(actually_ready_and_mine) may come in.
Orders(ids) ==
    {q \in UNION {[1..n -> ids] : n \in 0..Cardinality(ids)} :
        Len(q) = Cardinality(ids) /\ \A i, j \in 1..Len(q) : q[i] = q[j] => i = j}

\* pending_task_ids.intersection(ready_ids_from_api)
ReadyAndMine(pending_task_ids, ready_ids_from_api) ==
    pending_task_ids \cap ready_ids_from_api

\* 1141-1142: if pending_task_ids: time.sleep(current_poll_interval_seconds).
end_of_round_sleep(pending_task_ids, current_poll_interval_seconds) ==
    IF pending_task_ids /= {} THEN current_poll_interval_seconds ELSE 0

\* poll_task_results 991-1011 and 1125-1142: a turn of the while loop up to the for
\* loop: the sleep, GET /tasks_ready (which raises, answers without ready tasks, or
\* reports ready ids) and the intersection; the rest of the turn too when no task GET
\* is made.  time.sleep at 995 comes before the interval is raised at 996 and before
\* GET /tasks_ready at 999: wait is the time slept since the previous GET
\* /tasks_ready (or since the call), slept the time slept since this one.
PollRound(kind, ready_ids_from_api) ==
    /\ poll.pc = "loop"
    /\ poll.pending_task_ids /= {}
    /\ poll.attempts < max_poll_attempts
    /\ kind /= "ok" => ready_ids_from_api = {}
    /\ \E order \in Orders(ReadyAndMine(poll.pending_task_ids, ready_ids_from_api)) :
          poll' = [poll EXCEPT
              !.attempts = attempts_after_round(@),
              !.current_poll_interval_seconds = next_poll_interval(@),
              !.ready_ids_from_api = IF kind = "ok" THEN ready_ids_from_api ELSE {},
              !.ready_and_mine = IF kind = "ok" THEN order ELSE <<>>,
              !.wait = poll.slept + poll.current_poll_interval_seconds,
              !.slept = IF kind = "ok" /\ order /= <<>>
                        THEN 0
                        ELSE end_of_round_sleep(
                                 poll.pending_task_ids,
                                 next_poll_interval(poll.current_poll_interval_seconds)),
              !.pc = IF kind = "ok" /\ order /= <<>> THEN "get" ELSE "loop"]
    /\ UNCHANGED <<event_raw, event_clean, nvars, db_errors, pvars, geocoded, fp_run,
                   venue_cache, api_usage_tracking, resolver, places_calls, resolved,
                   url_queue, urls_pushed, fetcher, submit, retrieved, stops, uvars>>

\* Variant: the task is dropped from the pending set whatever the request gave.
pending_after_get_always_removed(pending_task_ids, task_id_to_get, outcome) ==
    pending_task_ids \ {task_id_to_get}

\* pending_task_ids.remove(task_id_to_get) at 1110, reached only with a result.
pending_after_get(pending_task_ids, task_id_to_get, outcome) ==
    IF outcome = "ok" THEN pending_task_ids \ {task_id_to_get} ELSE pending_task_ids

\* What GET task_get/advanced/<id> comes to: requests raises, the body is not JSON,
\* the status is not 20000 or no task is in it, the task has no result, or the
\* result.
GetOutcomes == {"http_error", "decode_error", "bad_status", "no_result", "ok"}

\* poll_task_results 1013-1123: one turn of the for loop.
PollGet(outcome) ==
    /\ poll.pc = "get"
    /\ LET task_id_to_get == Head(poll.ready_and_mine)
           rest == Tail(poll.ready_and_mine)
       IN  /\ poll' = [poll EXCEPT
                   !.pending_task_ids = pending_after_get(@, task_id_to_get, outcome),
                   !.ready_and_mine = rest,
                   !.outcome = outcome,
                   !.slept = @ + REQUEST_DELAY
                               + IF rest = <<>>
                                 THEN end_of_round_sleep(
                                          pending_after_get(poll.pending_task_ids,
                                                            task_id_to_get, outcome),
                                          poll.current_poll_interval_seconds)
                                 ELSE 0,
                   !.pc = IF rest = <<>> THEN "loop" ELSE "get"]
           /\ event_raw' =
                 IF outcome = "ok"
                 THEN InsertCalls(event_raw,
                                  ItemCalls("dataforseo_event_item_polled",
                                            MetadataOf(task_id_to_get).metro_id,
                                            task_id_to_get))
                 ELSE event_raw
    /\ UNCHANGED <<event_clean, nvars, db_errors, pvars, geocoded, fp_run,
                   venue_cache, api_usage_tracking, resolver, places_calls, resolved,
                   url_queue, urls_pushed, fetcher, submit, retrieved, stops, uvars>>

\* poll_task_results 991 and 1144-1150: the while condition fails and the function
\* returns.
PollReturn ==
    /\ poll.pc = "loop"
    /\ poll.pending_task_ids = {} \/ poll.attempts >= max_poll_attempts
    /\ poll' = [poll EXCEPT !.pc = "done"]
    /\ UNCHANGED <<event_raw, event_clean, nvars, db_errors, pvars, geocoded, fp_run,
                   venue_cache, api_usage_tracking, resolver, places_calls, resolved,
                   url_queue, urls_pushed, fetcher, submit, retrieved, stops, uvars>>

\* direct_retrieve_results 1548-1636 (called by main and by fetch_all_from_id_list):
\* one turn of the for loop for a task whose results the API returns.
direct_retrieve_results(task_id) ==
    /\ <<"direct", task_id>> \notin retrieved
    /\ retrieved' = retrieved \cup {<<"direct", task_id>>}
    /\ event_raw' = InsertCalls(event_raw,
                                ItemCalls("dataforseo_event_item_direct", NULL, task_id))
    /\ UNCHANGED <<event_clean, nvars, db_errors, pvars, geocoded, fp_run,
                   venue_cache, api_usage_tracking, resolver, places_calls, resolved,
                   url_queue, urls_pushed, fetcher, submit, poll, stops, uvars>>

\* get_results_by_id_list 1379-1500: one turn of the for loop for a task of /id_list
\* whose tag is in the map and whose results the API returns.
get_results_by_id_list(task_id) ==
    /\ <<"id_list", task_id>> \notin retrieved
    /\ retrieved' = retrieved \cup {<<"id_list", task_id>>}
    /\ event_raw' = InsertCalls(event_raw,
                                ItemCalls("dataforseo_event_item_idlist",
                                          MetadataOf(task_id).metro_id, task_id))
    /\ UNCHANGED <<event_clean, nvars, db_errors, pvars, geocoded, fp_run,
                   venue_cache, api_usage_tracking, resolver, places_calls, resolved,
                   url_queue, urls_pushed, fetcher, submit, poll, stops, uvars>>

(* ---------------------------------------------------------------------- *)
(* places_api_helper.py: venue cache, usage counters, resolve_venue_address *)
(* ---------------------------------------------------------------------- *)

\* DAILY_SEARCH_LIMIT and MONTHLY_SEARCH_LIMIT (266 and 8000 in the source), scaled.
DAILY_SEARCH_LIMIT == 2
MONTHLY_SEARCH_LIMIT == 3

\* Concurrent callers of resolve_venue_address, each on its own connection.
Resolvers == {"r1", "r2"}

\* Arguments of resolve_venue_address: the venue name in two spellings, with and
\* without a city.
VenueNames == {"hall", "Hall"}
Cities == {NULL, "london"}

\* SQL LOWER().
Lower(text) == IF text = "Hall" THEN "hall" ELSE text

\* venue_data of resolve_venue_with_google_places; None when the API has no result.
NoVenueData == [venue_name |-> NULL, city |-> NULL, place_id |-> NULL]
VenueData(venue_name, city) == [venue_name |-> venue_name, city |-> city, place_id |-> "place-1"]

\* A row of venue_cache: id SERIAL PRIMARY KEY and the columns of venue_data.
CacheRow(id, venue_data) ==
    [id |-> id, venue_name |-> venue_data.venue_name, city |-> venue_data.city,
     place_id |-> venue_data.place_id]

\* The columns check_venue_cache selects.
RowData(c) == [venue_name |-> c.venue_name, city |-> c.city, place_id |-> c.place_id]

\* A resolver that is not running.
IdleResolver ==
    [pc |-> "idle", venue_name |-> NULL, city |-> NULL, venue_data |-> NoVenueData,
     ret |-> NoVenueData, aborted |-> FALSE, today_count |-> 0, month_count |-> 0,
     held |-> FALSE, known |-> FALSE]

\* The rows check_venue_cache's SELECT matches: by LOWER(venue_name) and LOWER(city)
\* when a city is given, else by LOWER(venue_name) alone.
CacheMatches(rows, venue_name, city) ==
    IF Truthy(city)
    THEN {c \in rows : /\ Lower(c.venue_name) = Lower(venue_name)
                       /\ c.city /= NULL /\ Lower(c.city) = Lower(city)}
    ELSE {c \in rows : Lower(c.venue_name) = Lower(venue_name)}

\* resolve_venue_address(venue_name, original_address, city) up to its first
\* statement: a connection is opened and the tables are set up. held and known
\* remember whether the cache had a matching row, and whether an earlier call had
\* returned API data for the pair, when the call began.
resolve_venue_address(r, venue_name, city) ==
    /\ resolver[r].pc = "idle"
    /\ resolver' = [resolver EXCEPT ![r] =
          [IdleResolver EXCEPT !.pc = "check_venue_cache",
                               !.venue_name = venue_name, !.city = city,
                               !.held = CacheMatches(venue_cache, venue_name, city) /= {},
                               !.known = <<venue_name, city>> \in resolved]]
    /\ UNCHANGED <<event_raw, event_clean, nvars, db_errors, pvars, geocoded, fp_run, yvars,
                   venue_cache, api_usage_tracking, places_calls, resolved>>

\* check_venue_cache: a matching row is returned as it is, and resolve_venue_address
\* returns it; no row, or a failed SELECT (swallowed, the transaction is left
\* aborted), is a miss.
check_venue_cache(r) ==
    /\ resolver[r].pc = "check_venue_cache"
    /\ \E fails \in BOOLEAN :
          LET hits == IF fails THEN {}
                      ELSE CacheMatches(venue_cache, resolver[r].venue_name, resolver[r].city)
          IN  /\ fails => DbErrorCount < MaxDbErrors
              /\ db_errors' = IF fails THEN [db_errors EXCEPT !.places = @ + 1] ELSE db_errors
              /\ IF hits /= {}
                 THEN \E cached_data \in hits :
                          resolver' = [resolver EXCEPT ![r].pc = "idle",
                                                       ![r].ret = RowData(cached_data)]
                 ELSE resolver' = [resolver EXCEPT ![r].pc = "check_api_usage_limits",
                                                   ![r].aborted = fails]
    /\ UNCHANGED <<event_raw, event_clean, nvars, pvars, geocoded, fp_run, yvars,
                   venue_cache, api_usage_tracking, places_calls, resolved>>

\* Variant: only the daily count is compared, and with > instead of >=.
LimitReachedLate(today_count, month_count) == today_count > DAILY_SEARCH_LIMIT

\* today_count >= DAILY_SEARCH_LIMIT or month_count >= MONTHLY_SEARCH_LIMIT
LimitReached(today_count, month_count) ==
    today_count >= DAILY_SEARCH_LIMIT \/ month_count >= MONTHLY_SEARCH_LIMIT

\* check_api_usage_limits: the two SELECTs and the comparison; a failed SELECT (as
\* any statement in an aborted transaction is) counts as the limit being reached.
\* At the limit resolve_venue_address returns None.
check_api_usage_limits(r) ==
    /\ resolver[r].pc = "check_api_usage_limits"
    /\ \E fails \in BOOLEAN :
          LET today_count == api_usage_tracking.today
              month_count == api_usage_tracking.today + api_usage_tracking.earlier
          IN  /\ fails => DbErrorCount < MaxDbErrors /\ ~resolver[r].aborted
              /\ db_errors' = IF fails THEN [db_errors EXCEPT !.places = @ + 1] ELSE db_errors
              /\ IF fails \/ resolver[r].aborted
                 THEN resolver' = [resolver EXCEPT ![r].pc = "idle", ![r].ret = NoVenueData]
                 ELSE IF LimitReached(today_count, month_count)
                 THEN resolver' = [resolver EXCEPT ![r].pc = "idle", ![r].ret = NoVenueData,
                                                   ![r].today_count = today_count,
                                                   ![r].month_count = month_count]
                 ELSE resolver' = [resolver EXCEPT ![r].pc = "resolve_venue_with_google_places",
                                                   ![r].today_count = today_count,
                                                   ![r].month_count = month_count]
    /\ UNCHANGED <<event_raw, event_clean, nvars, pvars, geocoded, fp_run, yvars,
                   venue_cache, api_usage_tracking, places_calls, resolved>>

\* What resolve_venue_with_google_places comes to: GOOGLE_PLACES_API_KEY is not set
\* (None, without a request), or requests.get on the text search is made and gives
\* status 'OK' with a result, or anything else (another status, no result, an
\* exception).
PlacesOutcomes == {"no_key", "ok", "none"}

\* resolve_venue_with_google_places: venue_data for 'OK' with a result, else None.
resolve_venue_with_google_places(r) ==
    /\ resolver[r].pc = "resolve_venue_with_google_places"
    /\ \E outcome \in PlacesOutcomes :
          /\ places_calls' = IF outcome = "no_key" THEN places_calls ELSE places_calls + 1
          /\ resolver' = [resolver EXCEPT
                 ![r].pc = "track_api_call",
                 ![r].venue_data = IF outcome = "ok"
                                   THEN VenueData(resolver[r].venue_name, resolver[r].city)
                                   ELSE NoVenueData]
    /\ UNCHANGED <<event_raw, event_clean, nvars, db_errors, pvars, geocoded, fp_run, yvars,
                   venue_cache, api_usage_tracking, resolved>>

\* track_api_call: INSERT ... ON CONFLICT (api_name, usage_date) DO UPDATE SET
\* calls_count = calls_count + 1, committed; on psycopg2.Error a rollback. Without
\* venue_data resolve_venue_address returns None after it.
track_api_call(r) ==
    /\ resolver[r].pc = "track_api_call"
    /\ \E fails \in BOOLEAN :
          /\ fails => DbErrorCount < MaxDbErrors
          /\ db_errors' = IF fails THEN [db_errors EXCEPT !.places = @ + 1] ELSE db_errors
          /\ api_usage_tracking' = IF fails THEN api_usage_tracking
                                   ELSE [api_usage_tracking EXCEPT !.today = @ + 1]
    /\ resolver' = [resolver EXCEPT
          ![r].pc = IF resolver[r].venue_data /= NoVenueData THEN "save_venue_to_cache" ELSE "idle",
          ![r].ret = NoVenueData]
    /\ UNCHANGED <<event_raw, event_clean, nvars, pvars, geocoded, fp_run, yvars,
                   venue_cache, places_calls, resolved>>

\* save_venue_to_cache: INSERT ... ON CONFLICT (venue_name, city) DO UPDATE, committed
\* (a NULL city conflicts with no row); on psycopg2.Error a rollback. Whatever it
\* returns, resolve_venue_address returns venue_data.
save_venue_to_cache(r) ==
    /\ resolver[r].pc = "save_venue_to_cache"
    /\ \E fails \in BOOLEAN :
          LET venue_data == resolver[r].venue_data
              conflict == {c \in venue_cache : /\ venue_data.city /= NULL
                                               /\ c.venue_name = venue_data.venue_name
                                               /\ c.city = venue_data.city}
          IN  /\ fails => DbErrorCount < MaxDbErrors
              /\ db_errors' = IF fails THEN [db_errors EXCEPT !.places = @ + 1] ELSE db_errors
              /\ venue_cache' =
                    IF fails THEN venue_cache
                    ELSE IF conflict /= {}
                    THEN (venue_cache \ conflict)
                             \cup {CacheRow(c.id, venue_data) : c \in conflict}
                    ELSE venue_cache
                             \cup {CacheRow(Cardinality(venue_cache) + 1, venue_data)}
    /\ resolver' = [resolver EXCEPT ![r].pc = "idle", ![r].ret = resolver[r].venue_data]
    /\ resolved' = resolved \cup {<<resolver[r].venue_name, resolver[r].city>>}
    /\ UNCHANGED <<event_raw, event_clean, nvars, pvars, geocoded, fp_run, yvars,
                   api_usage_tracking, places_calls>>

(* ---------------------------------------------------------------------- *)
(* Specifications                                                          *)
(* ---------------------------------------------------------------------- *)
InitWorkers ==
    /\ npc = [w \in Workers |-> "idle"]
    /\ batch = [w \in Workers |-> <<>>]
    /\ raw_events_batch = [w \in Workers |-> <<>>]
    /\ rowcount = [w \in Workers |-> 0]
    /\ txn = [w \in Workers |-> NoTxn]

\* Nothing observed yet of the geocoder, of make_fp.
\* No row taken up by the loop body of worker_normalize checked on its own.
NoNormRun ==
    [pc |-> "idle", raw_event_row |-> NoRow, g1 |-> NoPoint, g2 |-> NoPoint,
     dbok |-> TRUE, event |-> NoneEvent, status |-> NULL]

\* geocode_address not called.
IdleGeocoder ==
    [pc |-> "idle", address_input |-> "None", country_code_hint |-> NULL,
     country_codes |-> NULL, attempt |-> 1, slept |-> 0, outcome |-> NULL,
     returned |-> NULL]

NoFpRun == [a |-> <<>>, b |-> <<>>, fa |-> <<>>, fb |-> <<>>, done |-> FALSE]

\* The tables of places_api_helper as given, no resolve_venue_address running, the
\* requests issued today being the ones recorded.
InitPlaces(cache, today, earlier) ==
    /\ venue_cache = cache
    /\ api_usage_tracking = [today |-> today, earlier |-> earlier]
    /\ resolver = [r \in Resolvers |-> IdleResolver]
    /\ places_calls = today
    /\ resolved = {}

InitObserved ==
    /\ geocoded = [w \in Workers |-> <<>>]
    /\ fp_run = NoFpRun
    /\ InitPlaces({}, 0, 0)

InitProducers ==
    /\ jsonld_raw = <<>>
    /\ deliveries = 0
    /\ ppc = [p \in Producers |-> "idle"]
    /\ ppkg = [p \in Producers |-> NoRow]
    /\ ptxn = [p \in Producers |-> {}]
    /\ stats = [p \in Producers |-> NoStats]
    /\ url_queue = <<>>
    /\ urls_pushed = 0
    /\ fetcher = [f \in Fetchers |-> IdleFetcher]
    /\ submit = NoSubmit
    /\ poll = NoPoll
    /\ retrieved = {}
    /\ stops = 0
    /\ norm_run = NoNormRun
    /\ geocoder = IdleGeocoder

\* Packages the parse worker admits.
AdmittedPackages == {pkg \in Packages : Admits(pkg)}

\* The event_raw tables the parse worker leaves behind after admitting up to MaxRaw
\* packages: rows in arrival order, no two with the same non-null
\* (source, source_event_id).
ParsedTables ==
    {[i \in 1..Len(q) |-> ParseRow(q[i], i, i)] :
        q \in {q \in UNION {[1..n -> AdmittedPackages] : n \in 2..MaxRaw} :
                  \A i, j \in 1..Len(q) :
                      i < j => ~ConflictsRaw(ParseRow(q[j], 0, 0), {ParseRow(q[i], 0, 0)})}}

\* Tables of MaxRaw rows that hold two rows of one event with a third row between or
\* after them.
FairTables ==
    {t \in ParsedTables :
        /\ Len(t) = MaxRaw
        /\ t[1].raw_json = SalsaA
        /\ \E i \in 2..Len(t) : t[i].raw_json = SalsaB
        /\ \E i \in 2..Len(t) : t[i].raw_json \in {Blank, Online}}

\* The normalize workers, and the reset script, over a table the parse worker filled:
\* the tables that begin with the first row of the event, of fewer than MaxRaw rows
\* or, of those above, with the untitled row between the two rows of the event.
Init ==
    /\ event_raw \in {t \in ParsedTables :
                        /\ t[1].raw_json = SalsaA
                        /\ Len(t) = MaxRaw => t \in FairTables /\ t[2].raw_json = Blank}
    /\ event_clean = {}
    /\ db_errors = NoDbErrors
    /\ resets = <<>>
    /\ InitWorkers
    /\ InitProducers
    /\ InitObserved

WorkerStep(w) ==
    \/ Fetch(w)
    \/ Normalize(w)
    \/ Mark(w)
    \/ RollbackOnError(w)
    \/ MarkErrorAfterRollback(w)
    \/ CommitBatch(w)

StoreFails(w) ==
    \/ NormalizeLookupFails(w)
    \/ InsertCleanFails(w)
    \/ MarkFails(w)
    \/ MarkErrorAfterRollbackFails(w)

Deadlock(w) ==
    \/ DeadlockOnInsert(w)
    \/ DeadlockOnErrorMark(w)
    \/ DeadlockOnMark(w)

Next ==
    \/ \E w \in Workers : WorkerStep(w)
    \/ \E w \in Workers : StoreFails(w)
    \/ \E w \in Workers : Deadlock(w)
    \/ \E id \in 1..MaxRaw : reset_event_status(id)

Spec == Init /\ [][Next]_vars

\* The producers filling an empty event_raw.
InitIngest ==
    /\ event_raw = <<>>
    /\ event_clean = {}
    /\ db_errors = NoDbErrors
    /\ resets = <<>>
    /\ InitWorkers
    /\ InitProducers
    /\ InitObserved

NextIngest ==
    \/ \E pkg \in Packages : Publish(pkg)
    \/ \E p \in ParseWorkers : ParsePop(p)
    \/ \E p \in Discoverers : \E c \in DiscoveryCalls : DiscoveryCall(p, c)
    \/ \E p \in Collectors : \E c \in CollectorCalls : CollectorCall(p, c)
    \/ \E p \in Producers : InsertRaw(p)
    \/ \E p \in Producers : InsertRawFails(p)
    \/ \E p \in Producers : CommitRaw(p)

SpecIngest == InitIngest /\ [][NextIngest]_vars

\* The same over the tables of MaxRaw rows that have the third row between the two
\* rows of one event, with the worker loops scheduled fairly and the store's deadlock
\* detector at work.
InitFair ==
    /\ event_raw \in {t \in FairTables : t[MaxRaw].raw_json = SalsaB}
    /\ event_clean = {}
    /\ db_errors = NoDbErrors
    /\ resets = <<>>
    /\ InitWorkers
    /\ InitProducers
    /\ InitObserved

\* The normalize workers over tables of two rows that are awaiting normalization,
\* whoever wrote them (worker_parse, or a collector's insert_raw_event with any
\* metro_id followed by mark_events_as_parsed.py): rows without a title or a start,
\* with an address to geocode, with coordinates inside and outside the regions, with
\* and without a region hint; and over the table of three rows the parse worker
\* leaves with a row without a title between two rows of one event. The venue cache
\* holds a row for the venue of some of the rows, and today's count of
\* api_usage_tracking stands at the daily limit.
GeoPackages ==
    {PkgBlank, PkgNoStart, PkgSalsaA, PkgNoMetro,
     Package("https://b.example/page", SalsaB, "m2"),
     Package("https://a.example/page", Far, "m1"),
     Package("https://a.example/page", Far, NULL),
     Package("https://a.example/page", Bachata, "m1")}

\* The pairs of packages the tables of two rows are parsed from: coordinates no region
\* covers and no hint; a hint of one region beside coordinates of another; a row
\* without coordinates or address; a row without a title.
GeoPairs ==
    {<<Package("https://a.example/page", Far, NULL), PkgNoMetro>>,
     <<Package("https://b.example/page", SalsaB, "m2"),
       Package("https://a.example/page", Far, "m1")>>,
     <<Package("https://a.example/page", Bachata, "m1"), PkgSalsaA>>,
     <<PkgBlank, PkgSalsaA>>}

GeoTables ==
    {<<ParseRow(q[1], 1, 1), ParseRow(q[2], 2, 2)>> : q \in GeoPairs}
    \cup {t \in FairTables : t[2].raw_json = Blank}

InitGeo ==
    /\ event_raw \in GeoTables
    /\ event_clean = {}
    /\ db_errors = NoDbErrors
    /\ resets = <<>>
    /\ InitWorkers
    /\ InitProducers
    /\ geocoded = [w \in Workers |-> <<>>]
    /\ fp_run = NoFpRun
    /\ InitPlaces({CacheRow(1, VenueData("Example Hall", NULL))}, DAILY_SEARCH_LIMIT, 0)

SpecGeo == InitGeo /\ [][Next]_vars

\* Worker w can take a step of its loop: the statement it is at does not wait for a
\* lock, or the deadlock detector is about to fail it.
CanStep(w) ==
    CASE npc[w] = "idle" -> Awaiting(event_raw) /= {}
      [] npc[w] = "process" ->
            \/ \E g1, g2 \in GeocodeAnswers :
                  \A o \in Workers \ {w} : ~HeldBy(NextStatement(w, g1, g2), o)
            \/ DeadlockVictim(w, "insert")
            \/ DeadlockVictim(w, "update")
      [] npc[w] = "mark" ->
            \/ ~RowLockedByOther(w, Head(batch[w]).id)
            \/ DeadlockVictim(w, "update")
      [] npc[w] = "errmark" -> ~RowLockedByOther(w, Head(batch[w]).id)
      [] OTHER -> TRUE

\* A step of the loop of worker w in which the store fails no statement.
StepOf(w) ==
    /\ npc'[w] /= npc[w] \/ batch'[w] /= batch[w]
    /\ db_errors' = db_errors

\* Weak fairness of WorkerStep(w) \/ Deadlock(w), with the enabling condition
\* written out: a worker that can step from some point on keeps stepping.
SpecFair ==
    /\ InitFair
    /\ [][Next]_vars
    /\ \A w \in Workers : ([]<>(~CanStep(w))) \/ ([]<><<StepOf(w)>>_vars)

\* The normalize workers next to the event parser: a table the parse worker filled
\* (two rows of one event), and after its rows a search-result row the event parser
\* has yet to parse.
ParserTables ==
    {Append(t, SerpRow(Len(t) + 1, payload)) :
        t \in {t \in ParsedTables :
                  Len(t) = 2 /\ t[1].raw_json = SalsaA /\ t[2].raw_json = SalsaB},
        payload \in {Serp, SerpEmpty}}

InitParser ==
    /\ event_raw \in ParserTables
    /\ event_clean = {}
    /\ db_errors = NoDbErrors
    /\ resets = <<>>
    /\ InitWorkers
    /\ InitProducers
    /\ InitObserved

\* The worker loops, with the store failing a statement of a pass, and the event
\* parser's main().
NextParser ==
    \/ \E w \in Workers : WorkerStep(w)
    \/ \E w \in Workers : NormalizeLookupFails(w)
    \/ \E w \in Workers : InsertCleanFails(w)
    \/ \E w \in Workers : MarkFails(w)
    \/ \E id \in 1..(MaxRaw + 1) : store_events_in_event_clean(id)

SpecParser == InitParser /\ [][NextParser]_vars

\* An environment that does not change between passes: the store fails no statement
\* and the geocoder gives the same answer for the same address every time.
StableGeocode(address) ==
    IF address = "123 Main St, Springfield" THEN <<"51.5", "-0.1">> ELSE NoPoint

NormalizeStable(w) ==
    /\ npc[w] = "process"
    /\ batch[w] /= <<>>
    /\ LET loc == Head(batch[w]).raw_json.location
           g1 == StableGeocode(AddressToGeocode(loc))
       IN  /\ Transform(w, g1, StableGeocode("city"), FALSE)
           /\ geocoded' = [geocoded EXCEPT
                 ![w] = GeocodeCalls(Head(batch[w]), g1, StableGeocode("city"), TRUE)]

NextStable ==
    \/ \E w \in Workers : Fetch(w)
    \/ \E w \in Workers : NormalizeStable(w)
    \/ \E w \in Workers : Mark(w)
    \/ \E w \in Workers : CommitBatch(w)
    \/ \E id \in 1..MaxRaw : reset_event_status(id)

SpecStable == Init /\ [][NextStable]_vars

\* make_fp on its own: two calls on arguments drawn from the texts below.
FpTitles == UNION {[1..n -> FpChars] : n \in 0..MaxTitleLen}
FpStarts ==
    {NoStartTs} \cup
    {[date |-> d, time |-> t] : d \in {<<"1", "-", "1">>, <<"1", "-", "2">>},
                                t \in {<<"2", "0">>, <<"2", "2">>}}
FpMetros == {NoMetroId, <<"1">>, <<"2">>, <<"1", "1">>}
FpArgs == [title : FpTitles, start_ts : FpStarts, metro_id : FpMetros]

InitFp ==
    /\ event_raw = <<>>
    /\ event_clean = {}
    /\ db_errors = NoDbErrors
    /\ resets = <<>>
    /\ InitWorkers
    /\ InitProducers
    /\ geocoded = [w \in Workers |-> <<>>]
    /\ fp_run \in [a : FpArgs, b : FpArgs, fa : {<<>>}, fb : {<<>>}, done : {FALSE}]
    /\ InitPlaces({}, 0, 0)

\* The two calls make_fp(title, start_ts, metro_id).
MakeFp ==
    /\ ~fp_run.done
    /\ fp_run' = [fp_run EXCEPT
          !.fa = make_fp_text(fp_run.a.title, fp_run.a.start_ts, fp_run.a.metro_id),
          !.fb = make_fp_text(fp_run.b.title, fp_run.b.start_ts, fp_run.b.metro_id),
          !.done = TRUE]
    /\ UNCHANGED <<event_raw, event_clean, nvars, db_errors, pvars, geocoded,
                   venue_cache, api_usage_tracking, resolver, places_calls, resolved, yvars>>

SpecFp == InitFp /\ [][MakeFp]_vars

\* Callers of resolve_venue_address over a venue cache that is empty or holds a row
\* from an earlier day, with today's count anywhere up to the limit and the count of
\* the month's earlier days at nothing or one short of the limit.
InitResolvers ==
    /\ event_raw = <<>>
    /\ event_clean = {}
    /\ db_errors = NoDbErrors
    /\ resets = <<>>
    /\ InitWorkers
    /\ InitProducers
    /\ geocoded = [w \in Workers |-> <<>>]
    /\ fp_run = NoFpRun
    /\ \E cache \in {{}, {CacheRow(1, VenueData("Hall", "london"))}} :
       \E today \in 0..DAILY_SEARCH_LIMIT :
       \E earlier \in {0, MONTHLY_SEARCH_LIMIT - 1} :
           InitPlaces(cache, today, earlier)

NextResolvers ==
    \/ \E r \in Resolvers : \E venue_name \in VenueNames : \E city \in Cities :
           resolve_venue_address(r, venue_name, city)
    \/ \E r \in Resolvers : check_venue_cache(r)
    \/ \E r \in Resolvers : check_api_usage_limits(r)
    \/ \E r \in Resolvers : resolve_venue_with_google_places(r)
    \/ \E r \in Resolvers : track_api_call(r)
    \/ \E r \in Resolvers : save_venue_to_cache(r)

SpecResolvers == InitResolvers /\ [][NextResolvers]_vars

\* The fetch workers over url_queue as the discovery script fills it.
NextFetch ==
    \/ \E pkg \in UrlPackages : PublishUrl(pkg)
    \/ \E f \in Fetchers : FetchPop(f)
    \/ \E f \in Fetchers : \E res \in PageResults : FetchPage(f, res)
    \/ \E f \in Fetchers : FetchPush(f)
    \/ \E f \in Fetchers : FetchClose(f)

SpecFetch == InitIngest /\ [][NextFetch]_vars

\* Calls of batch_api_tasks, one at a time, at any second of the run.
Runs == {1, 2}
NextSubmit ==
    \/ \E cities_df \in CitiesDfs : \E n \in TermCounts : \E now \in Runs :
          batch_api_tasks(cities_df, BroadTerms(n), now)
    \/ \E kind \in ResponseKinds : PostChunk(kind)

SpecSubmit == InitIngest /\ [][NextSubmit]_vars

\* worker_normalize 490-550, the body of the for loop on one row taken by itself:
\* process_raw_event, make_fp, score, the INSERT and the status written for the row.
\* held: event_clean holds a row with the (metro_id, fingerprint) of the dict;
\* dbok: the statements on the cursor succeed (else the INSERT raises psycopg2.Error
\* and the except clause marks the row 'error').
NormalizeRow(raw_event_row, g1, g2, dbok, held) ==
    /\ norm_run.pc = "idle"
    /\ LET d == process_raw_event(raw_event_row, g1, g2, dbok)
           fp == make_fp(d.title, d.start_ts, d.metro_id)
       IN  norm_run' =
              [pc |-> "done", raw_event_row |-> raw_event_row, g1 |-> g1, g2 |-> g2,
               dbok |-> dbok,
               event |-> IF ~d.ok \/ fp = NoFp
                         THEN NoneEvent
                         ELSE normalized_event_dict(raw_event_row, g1, g2, dbok),
               status |-> IF ~d.ok \/ fp = NoFp \/ ~dbok THEN "error"
                          ELSE IF held THEN "duplicate" ELSE "processed"]
    /\ UNCHANGED <<event_raw, event_clean, nvars, db_errors, pvars, geocoded, fp_run,
                   venue_cache, api_usage_tracking, resolver, places_calls, resolved,
                   url_queue, urls_pushed, fetcher, submit, poll, retrieved, stops,
                   geocoder>>

\* The loop goes on to the next row.
NormalizeNext ==
    /\ norm_run.pc = "done"
    /\ norm_run' = NoNormRun
    /\ UNCHANGED <<event_raw, event_clean, nvars, db_errors, pvars, geocoded, fp_run,
                   venue_cache, api_usage_tracking, resolver, places_calls, resolved,
                   url_queue, urls_pushed, fetcher, submit, poll, retrieved, stops,
                   geocoder>>

\* Rows of event_raw as the parse worker writes them, some with a description.
NormPackages ==
    GeoPackages \cup
    {Package("https://a.example/page",
             Described(SalsaA, "Semba upstairs, WCS in the Salsateca room"), "m1"),
     Package("https://a.example/page",
             Described(SalsaB,
                 "An evening of Argentine tango and Brazilian zouk for every level"), "m2"),
     Package("https://a.example/page",
             Described(Far,
                 "An evening of Argentine tango and Brazilian zouk for every level"), "m1")}
NextNormalizeRow ==
    \/ \E pkg \in NormPackages : \E g1, g2 \in GeocodeAnswers : \E dbok, held \in BOOLEAN :
          NormalizeRow(ParseRow(pkg, 1, 1), g1, g2, dbok, held)
    \/ NormalizeNext

SpecNormalizeRow == InitIngest /\ [][NextNormalizeRow]_vars

(* ---------------------------------------------------------------------- *)
(* worker_normalize.py: geocode_address                                     *)
(* ---------------------------------------------------------------------- *)
max_attempts == 3

\* Arguments by their Python type and truthiness: None, '', a query string, {},
\* a structured address without and with a 'country' key, and a number.
AddressInputs == {"None", "empty_str", "str", "empty_dict", "dict", "dict_country", "int"}
CountryCodeHints == {NULL, "", "US", "GB"}

\* not address_input
FalsyInput(address_input) == address_input \in {"None", "empty_str", "empty_dict"}

\* Neither a str nor a dict.
InvalidInput(address_input) == address_input = "int"

\* query_params.get('countrycodes') after lines 106-109.
countrycodes(address_input, country_code_hint) ==
    IF Truthy(country_code_hint) /\ address_input /= "dict_country"
    THEN country_code_hint ELSE NULL

\* Variant: one more retry than max_attempts.
may_retry_once_more(attempt) == attempt <= max_attempts + 1

\* Line 130: attempt <= max_attempts.
may_retry(attempt) == attempt <= max_attempts

GeocoderUnchanged ==
    UNCHANGED <<event_raw, event_clean, nvars, db_errors, pvars, geocoded, fp_run,
                venue_cache, api_usage_tracking, resolver, places_calls, resolved,
                url_queue, urls_pushed, fetcher, submit, poll, retrieved, stops,
                norm_run>>

\* The call, up to the try statement: lines 90-117.
geocode_address(address_input, country_code_hint) ==
    /\ geocoder.pc = "idle"
    /\ geocoder' =
          IF FalsyInput(address_input) \/ InvalidInput(address_input)
          THEN [IdleGeocoder EXCEPT !.pc = "done", !.address_input = address_input,
                                    !.country_code_hint = country_code_hint,
                                    !.returned = "None"]
          ELSE [IdleGeocoder EXCEPT !.pc = "request", !.address_input = address_input,
                                    !.country_code_hint = country_code_hint,
                                    !.country_codes =
                                        countrycodes(address_input, country_code_hint)]
    /\ GeocoderUnchanged

\* What geolocator.geocode(.., timeout=10) does: it returns a location or None, or
\* raises GeocoderTimedOut, GeocoderUnavailable or another exception.
GeocodeOutcomes == {"location", "none", "timeout", "unavailable", "error"}

\* Lines 119-141: the request and the except clauses. After a timeout the function
\* sleeps attempt * 2 seconds and calls itself with attempt + 1.
GeocodeRequest(outcome) ==
    /\ geocoder.pc = "request"
    /\ geocoder' =
          IF outcome = "timeout" /\ may_retry(geocoder.attempt)
          THEN [geocoder EXCEPT !.outcome = outcome,
                                !.slept = geocoder.attempt * 2,
                                !.attempt = @ + 1]
          ELSE [geocoder EXCEPT !.pc = "done", !.outcome = outcome,
                                !.returned = IF outcome = "location"
                                             THEN "location" ELSE "None"]
    /\ GeocoderUnchanged

\* The caller takes the value.
GeocodeReturn ==
    /\ geocoder.pc = "done"
    /\ geocoder' = IdleGeocoder
    /\ GeocoderUnchanged

GeocoderStep ==
    \/ \E outcome \in GeocodeOutcomes : GeocodeRequest(outcome)
    \/ GeocodeReturn
NextGeocoder ==
    \/ \E address_input \in AddressInputs : \E country_code_hint \in CountryCodeHints :
          geocode_address(address_input, country_code_hint)
    \/ GeocoderStep

\* Every request is answered or times out (timeout=10), and the caller goes on.
SpecGeocoder == InitIngest /\ [][NextGeocoder]_vars /\ WF_vars(GeocoderStep)

\* One fetch worker and one parse worker over the two queues, interrupted, killed
\* and started again.
StopUrls == {UrlPackage("https://a.example/page", "m1", "salsa")}
StopPages == {PageResult("goto_error", <<>>), PageResult("ok", <<SalsaA>>),
              PageResult("ok", <<SalsaB, NotEvent>>)}
NextStop ==
    \/ \E pkg \in StopUrls : PublishUrl(pkg)
    \/ FetchPop("f1")
    \/ \E res \in StopPages : FetchPage("f1", res)
    \/ FetchPush("f1")
    \/ FetchClose("f1")
    \/ FetchInterrupt("f1")
    \/ FetchKill("f1")
    \/ FetchRestart("f1")
    \/ ParsePop("p1")
    \/ InsertRaw("p1")
    \/ CommitRaw("p1")
    \/ ParseInterrupt("p1")
    \/ ParseKill("p1")
    \/ ParseRestart("p1")

SpecStop == InitIngest /\ [][NextStop]_vars

\* poll_task_results over the tasks of a run, with the API reporting any ids as ready
\* and answering each request in any way.
PollStep ==
    \/ \E ids \in SUBSET TaskIds : poll_task_results(ids)
    \/ \E kind \in {"error", "none_ready", "ok"} :
          \E ready_ids_from_api \in SUBSET (TaskIds \cup ForeignTaskIds) :
             PollRound(kind, ready_ids_from_api)
    \/ \E outcome \in GetOutcomes : PollGet(outcome)
    \/ PollReturn

SpecPoll == InitIngest /\ [][PollStep]_vars

\* The same with every request and sleep of the loop coming to an end.
SpecPollFair == InitIngest /\ [][PollStep]_vars /\ WF_vars(PollStep)

\* main 1833-1846 on the tasks it submitted: direct_retrieve_results, then
\* fetch_all_from_id_list, then (USE_LEGACY_POLLING) poll_task_results.
NextRetrieve ==
    \/ PollStep
    \/ /\ poll.pc = "idle"
       /\ \A r \in retrieved : r[1] = "direct"
       /\ \E task_id \in TaskIds : direct_retrieve_results(task_id)
    \/ /\ poll.pc = "idle"
       /\ \E task_id \in TaskIds : get_results_by_id_list(task_id)

SpecRetrieve == InitIngest /\ [][NextRetrieve]_vars

(* ---------------------------------------------------------------------- *)
(* Properties                                                              *)
(* ---------------------------------------------------------------------- *)

\* Title and start day the normalize worker reads from a raw row.
TitleOf(i) == normalize_string(event_raw[i].raw_json.name)
DayOf(i) == parse_datetime(event_raw[i].raw_json.startDate).day
StatusOf(i) == event_raw[i].normalization_status
BatchIds(w) == {batch[w][k].id : k \in 1..Len(batch[w])}

\* C1: event_clean never holds two rows with the same (metro_id, fingerprint), and a
\* row that is in event_clean stays in it, unmodified, whatever is normalized later.
C1_CleanKeyFirstWins ==
    /\ [](\A c1, c2 \in event_clean : SameKey(c1, c2) => c1 = c2)
    /\ [][\A c \in event_clean : c \in event_clean']_vars

\* C1 witness: the normalize worker has written a clean row and turned away, as a
\* duplicate, a raw row of another source that normalizes to the same title and day,
\* and the event parser has stored a row of its own.
C1_Witness ==
    /\ \E c \in event_clean : \E i \in RawIds :
          /\ c.source /= "dataforseo_serp"
          /\ StatusOf(i) = "duplicate"
          /\ event_raw[i].source /= c.source
          /\ TitleOf(i) = c.title
          /\ DayOf(i) = c.start_ts.day
    /\ \E p \in event_clean : p.source = "dataforseo_serp"

C3_WrittenOnce ==
    [][\A i \in RawIds :
          event_raw[i].normalized_at /= NoTime =>
              \/ event_raw'[i] = event_raw[i]
              \/ event_raw'[i].normalized_at = NoTime]_vars

\* C4: a batch is selected only from rows whose normalized_at is NULL at that moment,
\* and a worker marks, inserts for, or marks after a rollback only the row at the head
\* of the batch it selected: a row whose normalized_at is set is never touched by a
\* batch selected afterwards.
C4_TerminalIsFinal ==
    [][\A w \in Workers :
          /\ (npc[w] = "idle" /\ npc'[w] /= "idle") =>
                \A id \in {batch'[w][k].id : k \in 1..Len(batch'[w])} :
                    event_raw[id].normalized_at = NoTime
          /\ \A m \in txn'[w].marks \ txn[w].marks :
                batch[w] /= <<>> /\ m.id = Head(batch[w]).id
          /\ \A c \in txn'[w].clean \ txn[w].clean :
                batch[w] /= <<>> /\ c.event_raw_id = Head(batch[w]).id
          /\ \A i \in RawIds :
                (event_raw'[i] /= event_raw[i] /\ event_raw'[i].normalized_at /= NoTime) =>
                    \E v \in Workers :
                        \/ \E m \in txn[v].marks : m.id = i
                        \/ npc[v] = "errmark" /\ Head(batch[v]).id = i]_vars

\* C4 witness: a worker holds a batch that starts after an older row whose
\* normalized_at is set: the select passed that row over.
C4_Witness ==
    \E w \in Workers : \E i \in RawIds :
        /\ npc[w] = "process"
        /\ Len(batch[w]) = BATCH_SIZE
        /\ event_raw[i].normalized_at /= NoTime
        /\ \A id \in BatchIds(w) : i < id

\* C5: whatever is delivered, and however often, event_raw holds at most one row per
\* admitted package: no two rows written by parse workers have the same source,
\* metro_id and payload.
C5_OneRowPerPackage ==
    \A i, j \in RawIds :
        (/\ event_raw[i].parsed_at /= NoTime
         /\ event_raw[j].parsed_at /= NoTime
         /\ event_raw[i].source = event_raw[j].source
         /\ event_raw[i].metro_id = event_raw[j].metro_id
         /\ event_raw[i].raw_json = event_raw[j].raw_json) => i = j

\* C6: event_raw never holds two rows with the same non-null (source,
\* source_event_id); a row, once committed, stays as its first writer left it; and an
\* insert that loses to an existing key is reported as a success: the parse worker
\* counts it as skipped and not as failed, insert_into_event_raw and the collectors'
\* insert_raw_event return True.
C6_FirstWriterWins ==
    /\ [](\A i, j \in RawIds :
             (/\ event_raw[i].source_event_id /= NULL
              /\ event_raw[i].source = event_raw[j].source
              /\ event_raw[i].source_event_id = event_raw[j].source_event_id) => i = j)
    /\ [][/\ Len(event_raw') >= Len(event_raw)
          /\ \A i \in RawIds : event_raw'[i] = event_raw[i]
          /\ \A p \in Producers :
                /\ (ppc[p] = "insert" /\ ppc'[p] = "commit" /\ ptxn'[p] = {}) =>
                      /\ ConflictsRaw(ppkg[p], SeqToSet(event_raw))
                      /\ stats'[p].failed = stats[p].failed
                      /\ p \in ParseWorkers => stats'[p].skipped = stats[p].skipped + 1
                /\ (ppc[p] = "commit" /\ ptxn[p] = {} /\ ppc'[p] = "idle") =>
                      /\ event_raw' = event_raw
                      /\ stats'[p].failed = stats[p].failed
                      /\ p \notin ParseWorkers => stats'[p].ret = "True"]_vars

\* C6 witness: a producer's insert has found the key of a committed row written with
\* another payload, has inserted nothing, and is about to commit; the row still
\* carries the first writer's payload.
C6_Witness ==
    \E p \in Producers : \E i \in RawIds :
        /\ ppc[p] = "commit"
        /\ ptxn[p] = {}
        /\ ppkg[p].source_event_id /= NULL
        /\ ppkg[p].source = event_raw[i].source
        /\ ppkg[p].source_event_id = event_raw[i].source_event_id
        /\ ppkg[p].raw_json /= event_raw[i].raw_json

\* A pass of worker w ends: the commit after the for loop.
PassEnds(w) == npc[w] = "commit" /\ npc'[w] = "idle"

\* Every row the pass selected is terminal once the pass has ended.
BatchTerminalAfter(w) ==
    \A k \in 1..Len(raw_events_batch[w]) :
        event_raw'[raw_events_batch[w][k].id].normalized_at /= NoTime

\* C7: when the only statements the store fails are INSERTs into event_clean, a pass
\* loses no other record's work to the rollback: at its end every row it selected is
\* terminal, the failing one as 'error', and every row marked 'processed' has its
\* clean row.
C7_OnlyFailingRecordRolledBack ==
    [][\A w \in Workers :
          (/\ PassEnds(w)
           /\ db_errors.lookup = 0 /\ db_errors.mark = 0 /\ db_errors.errmark = 0
           /\ resets = <<>>) =>
              /\ BatchTerminalAfter(w)
              /\ \A i \in RawIds :
                    event_raw'[i].normalization_status = "processed" =>
                        \E c \in event_clean' : c.event_raw_id = i]_vars

\* C8: when nothing fails but transformations (a payload that makes
\* process_raw_event raise, a geocoder without an answer, a metro lookup that fails),
\* every row a pass selected is terminal at the end of the pass.
C8_OthersStillTerminal ==
    [][\A w \in Workers :
          (/\ PassEnds(w)
           /\ db_errors.insert = 0 /\ db_errors.mark = 0 /\ db_errors.errmark = 0
           /\ resets = <<>>) =>
              BatchTerminalAfter(w)]_vars

Terminal == {"processed", "duplicate", "error"}

WasReset(i) == \E k \in 1..Len(resets) : resets[k].id = i
LastReset(i) ==
    resets[CHOOSE k \in 1..Len(resets) :
               resets[k].id = i /\ \A l \in 1..Len(resets) : resets[l].id = i => l <= k]

\* What raw row i normalizes to in the unchanging environment, and the clean rows
\* under the key (metro_id, fingerprint) of that.
StableEvent(i) ==
    LET d == process_raw_event(event_raw[i],
                               StableGeocode(AddressToGeocode(event_raw[i].raw_json.location)),
                               StableGeocode("city"), TRUE)
    IN  [d EXCEPT !.fingerprint = make_fp(d.title, d.start_ts, d.metro_id)]
CleanOf(i, rows) == {c \in rows : SameKey(c, StableEvent(i))}

\* C10: in an unchanging environment every clean row carries the fingerprint its raw
\* row normalizes to, and the pass that normalizes a row again after a reset leaves
\* the clean rows under the row's key as they were and marks the row 'duplicate'
\* when the reset erased 'processed' or 'duplicate', 'error' when it erased 'error'.
C10_RenormalizationChangesNothing ==
    /\ [](\A c \in event_clean : SameKey(c, StableEvent(c.event_raw_id)))
    /\ [][\A i \in RawIds :
          (/\ WasReset(i)
           /\ event_raw[i].normalized_at = NoTime
           /\ event_raw'[i].normalized_at /= NoTime) =>
              /\ CleanOf(i, event_clean') = CleanOf(i, event_clean)
              /\ LastReset(i).status \in {"processed", "duplicate"} =>
                    event_raw'[i].normalization_status = "duplicate"
              /\ LastReset(i).status = "error" =>
                    event_raw'[i].normalization_status = "error"]_vars

\* C10 witness: a row was 'processed', reset, and normalized again: it is 'duplicate'
\* and the clean row it created is still there.
C10_Witness ==
    \E i \in RawIds :
        /\ WasReset(i)
        /\ LastReset(i).status = "processed"
        /\ StatusOf(i) = "duplicate"
        /\ \E c \in event_clean : c.event_raw_id = i

\* The three values the fingerprint is said to depend on: the title as normalized,
\* the calendar day of the start, the region id.
FpKey(x) == <<strip(x.title), strftime_Ymd(x.start_ts), x.metro_id>>

\* C11: two make_fp calls that both yield a fingerprint yield the same one exactly
\* when they agree on normalized title, calendar day and region id; the time of day
\* and everything else make no difference.
C11_FingerprintOfTitleDayRegion ==
    (fp_run.done /\ fp_run.fa /= <<>> /\ fp_run.fb /= <<>>) =>
        (FpKey(fp_run.a) = FpKey(fp_run.b) <=> fp_run.fa = fp_run.fb)

\* C11 witness: two calls that differ in the time of day and in the blanks around the
\* title, agree on the three values, and yield one fingerprint.
C11_Witness ==
    /\ fp_run.done
    /\ fp_run.fa /= <<>>
    /\ fp_run.fa = fp_run.fb
    /\ fp_run.a.start_ts.time /= fp_run.b.start_ts.time
    /\ fp_run.a.title /= fp_run.b.title

\* The payload of the row lacks a title or a parseable start timestamp.
LacksTitleOrStart(raw_event_row) ==
    \/ ~Truthy(normalize_string(raw_event_row.raw_json.name))
    \/ parse_datetime(raw_event_row.raw_json.startDate) = NoTs

\* Worker w runs process_raw_event on the head of its batch in this step.
Processes(w) == npc[w] = "process" /\ batch[w] /= <<>> /\ npc'[w] /= "process"

\* C12: a raw record whose payload lacks a title or a parseable start timestamp has
\* no clean record, no geocode_address call is made for it, and the pass that
\* selected it leaves it marked 'error' (no reset script running).
C12_MissingTitleOrStartIsErrorInItsPass ==
    /\ [](\A c \in event_clean : ~LacksTitleOrStart(event_raw[c.event_raw_id]))
    /\ [][\A w \in Workers :
          /\ (Processes(w) /\ LacksTitleOrStart(Head(batch[w]))) => geocoded'[w] = <<>>
          /\ (PassEnds(w) /\ resets = <<>>) =>
                \A k \in 1..Len(raw_events_batch[w]) :
                    LacksTitleOrStart(raw_events_batch[w][k]) =>
                        /\ event_raw'[raw_events_batch[w][k].id].normalized_at /= NoTime
                        /\ event_raw'[raw_events_batch[w][k].id].normalization_status = "error"]_vars

\* Whether some region's bounding polygon covers the point.
Covered(point) == \E m \in Metro : point \in m.bbox

\* The coordinates a record ends up with: those of the last geocode_address call that
\* answered with a point, else the payload's.
ResolvedPoint(raw_event_row, calls) ==
    LET answered == {k \in 1..Len(calls) : calls[k].answer /= NoPoint}
    IN  IF answered = {}
        THEN PayloadPoint(raw_event_row.raw_json.location)
        ELSE calls[CHOOSE k \in answered : \A l \in answered : l <= k].answer

\* C13: no clean record, committed or pending, has a null metro_id or a null
\* fingerprint; a record that arrived with no region hint and whose coordinates are
\* missing or covered by no region gets no clean row, and the statement executed for
\* it is the 'error' mark; committed, its status is never other than 'error'.
C13_NoRegionNoFingerprintIsError ==
    /\ [](\A w \in Workers : \A c \in event_clean \cup txn[w].clean :
             c.metro_id /= NULL /\ c.fingerprint /= NoFp)
    /\ [](\A i \in RawIds :
             (/\ event_raw[i].metro_id = NULL
              /\ ~NeedsGeocode(event_raw[i])
              /\ ~Covered(PayloadPoint(event_raw[i].raw_json.location))) =>
                 StatusOf(i) \in {NULL, "error"})
    /\ [][\A w \in Workers :
          (/\ Processes(w)
           /\ ~ReturnsEarly(Head(batch[w]))
           /\ Head(batch[w]).metro_id = NULL
           /\ ~Covered(ResolvedPoint(Head(batch[w]), geocoded'[w]))) =>
              /\ \A c \in txn'[w].clean : c.event_raw_id /= Head(batch[w]).id
              /\ batch'[w] = Tail(batch[w])
              /\ \/ txn'[w].aborted
                 \/ [id |-> Head(batch[w]).id, status |-> "error"] \in txn'[w].marks]_vars

\* A record with coordinates no region covers and no hint, and a record whose address
\* the geocoder could not resolve and no hint, both committed as 'error'.
C13_Witness ==
    /\ Len(event_raw) = 2
    /\ event_raw[1].raw_json = Far /\ event_raw[2].raw_json = SalsaA
    /\ \A i \in RawIds :
          /\ event_raw[i].metro_id = NULL
          /\ StatusOf(i) = "error"
          /\ event_raw[i].normalized_at /= NoTime
    /\ event_clean = {}
    /\ db_errors = NoDbErrors

\* C14: a clean record, committed or pending, whose coordinates some region covers
\* carries the id of a region covering them, whatever the hint; a clean record
\* without coordinates or with coordinates no region covers carries the raw row's
\* hint. The coordinates of a clean row are the ones resolved for its raw row.
C14_CoveringRegionElseHint ==
    /\ [](\A w \in Workers : \A c \in event_clean \cup txn[w].clean :
             IF Covered(c.venue_geom)
             THEN \E m \in Metro : c.venue_geom \in m.bbox /\ c.metro_id = m.geonameid
             ELSE c.metro_id = event_raw[c.event_raw_id].metro_id)
    /\ [][\A w \in Workers : \A c \in txn'[w].clean \ txn[w].clean :
             /\ Processes(w)
             /\ c.event_raw_id = Head(batch[w]).id
             /\ c.venue_geom = ResolvedPoint(Head(batch[w]), geocoded'[w])]_vars

\* One clean row in the region that covers its coordinates although the hint named
\* another region, and one with coordinates no region covers in the hinted region.
C14_Witness ==
    \E c1, c2 \in event_clean :
        /\ Covered(c1.venue_geom)
        /\ c1.metro_id /= event_raw[c1.event_raw_id].metro_id
        /\ event_raw[c1.event_raw_id].metro_id /= NULL
        /\ c2.venue_geom /= NoPoint /\ ~Covered(c2.venue_geom)
        /\ c2.metro_id = event_raw[c2.event_raw_id].metro_id

\* C15: when the payload of a record carries a numeric latitude and longitude, the
\* process_raw_event run on it makes no geocode_address call, and the clean row
\* written for it carries exactly those coordinates as its geometry.
C15_PayloadCoordinatesUsedDirectly ==
    [][\A w \in Workers :
          LET geo == Head(batch[w]).raw_json.location.geo
          IN  (/\ Processes(w)
               /\ geo.kind = "dict"
               /\ IsNumeric(geo.latitude) /\ IsNumeric(geo.longitude)) =>
                  /\ geocoded'[w] = <<>>
                  /\ \A c \in txn'[w].clean \ txn[w].clean :
                        c.venue_geom = <<Float(geo.latitude), Float(geo.longitude)>>]_vars

\* A clean row committed for the record that carries an address next to its
\* coordinates, with the payload's coordinates as its geometry.
C15_Witness ==
    \E c \in event_clean :
        /\ event_raw[c.event_raw_id].raw_json = Far
        /\ Truthy(AddressToGeocode(Far.location))
        /\ c.venue_geom = <<"0.0", "0.0">>
        /\ StatusOf(c.event_raw_id) = "processed"

\* C16: a process_raw_event run of the normalize worker makes no geocode_address
\* call for a record while the venue cache holds a row for the record's venue name
\* and city, or while today's or this month's recorded calls have reached the limit
\* (a call is made only after a cache lookup that missed and a quota check that
\* passed).
C16_WorkerGeocodesBehindCacheAndQuota ==
    [][\A w \in Workers :
          LET loc == Head(batch[w]).raw_json.location
              s_city == IF loc.address.kind = "dict"
                        THEN normalize_string(loc.address.city) ELSE NULL
          IN  (/\ Processes(w)
               /\ loc.kind = "dict"
               /\ \/ CacheMatches(venue_cache, normalize_string(loc.name), s_city) /= {}
                  \/ api_usage_tracking.today >= DAILY_SEARCH_LIMIT
                  \/ api_usage_tracking.today + api_usage_tracking.earlier
                         >= MONTHLY_SEARCH_LIMIT) =>
                  geocoded'[w] = <<>>]_vars

\* resolve_venue_address r is past its checks: at the API request or behind it.
PastChecks(r) ==
    resolver[r].pc \in {"resolve_venue_with_google_places", "track_api_call", "save_venue_to_cache"}

\* C17: a resolve_venue_address call that began while the venue cache held a row for
\* its (venue name, city) issues no API request; the venue cache changes only by the
\* venue_data of a successful API request being saved; a call that began after an
\* earlier call had returned API data for the same pair issues no API request,
\* increments no counter and returns a row of the cache.
C17_ResolvedOnceThenServedFromCache ==
    /\ [](\A r \in Resolvers : resolver[r].held => ~PastChecks(r))
    /\ [][venue_cache' /= venue_cache =>
             \E r \in Resolvers :
                 /\ resolver[r].pc = "save_venue_to_cache"
                 /\ resolver[r].venue_data /= NoVenueData
                 /\ {RowData(c) : c \in venue_cache' \ venue_cache}
                        = {resolver[r].venue_data}]_vars
    /\ [](\A r \in Resolvers :
             resolver[r].known =>
                 /\ ~PastChecks(r)
                 /\ resolver[r].pc /= "check_api_usage_limits"
                 /\ resolver[r].pc = "idle" =>
                        resolver[r].ret \in {RowData(c) : c \in venue_cache})

\* C18: when today's recorded count has reached the daily limit, or this month's
\* total the monthly limit, the check of a resolve_venue_address call ends the call:
\* it returns None, no API request is issued and no counter is changed.
C18_RefusedAtTheLimit ==
    [][\A r \in Resolvers :
          (/\ resolver[r].pc = "check_api_usage_limits"
           /\ resolver'[r] /= resolver[r]
           /\ \/ api_usage_tracking.today >= DAILY_SEARCH_LIMIT
              \/ api_usage_tracking.today + api_usage_tracking.earlier >= MONTHLY_SEARCH_LIMIT) =>
              /\ resolver'[r].pc = "idle"
              /\ resolver'[r].ret = NoVenueData
              /\ places_calls' = places_calls
              /\ api_usage_tracking' = api_usage_tracking]_vars

\* A call that read today's count at the daily limit and one that read the month's
\* total at the monthly limit (today's count below the daily limit), both returned
\* None with no statement failed.
C18_Witness ==
    /\ resolver["r1"].pc = "idle" /\ resolver["r1"].ret = NoVenueData
    /\ resolver["r1"].today_count = DAILY_SEARCH_LIMIT
    /\ resolver["r2"].pc = "idle" /\ resolver["r2"].ret = NoVenueData
    /\ resolver["r2"].today_count < DAILY_SEARCH_LIMIT
    /\ resolver["r2"].month_count >= MONTHLY_SEARCH_LIMIT
    /\ db_errors = NoDbErrors

\* C19: with several resolve_venue_address calls running at once, neither the API
\* requests issued today nor today's recorded calls_count exceed the daily limit.
C19_DailyLimitNeverExceeded ==
    /\ places_calls <= DAILY_SEARCH_LIMIT
    /\ api_usage_tracking.today <= DAILY_SEARCH_LIMIT

\* C20: when every geocode_address call made for a record comes back without a
\* point (a timeout, an unavailable provider, no result), and the record has a title,
\* a parseable start and a region hint, then, no statement failing in the store, the
\* worker executes the INSERT for it and no 'error' mark: a clean row without
\* geometry is added, or the row is a duplicate.
C20_GeocodingFailureLeavesGeometryNull ==
    [][\A w \in Workers :
          (/\ Processes(w)
           /\ ~ReturnsEarly(Head(batch[w]))
           /\ Head(batch[w]).metro_id /= NULL
           /\ geocoded'[w] /= <<>>
           /\ \A k \in 1..Len(geocoded'[w]) : geocoded'[w][k].answer = NoPoint
           /\ ~txn[w].aborted /\ ~txn'[w].aborted
           /\ db_errors' = db_errors) =>
              /\ npc'[w] = "mark"
              /\ \A m \in txn'[w].marks : m.id = Head(batch[w]).id => m \in txn[w].marks
              /\ IF rowcount'[w] = 1
                 THEN \E c \in txn'[w].clean \ txn[w].clean :
                          c.event_raw_id = Head(batch[w]).id /\ c.venue_geom = NoPoint
                 ELSE txn'[w].clean = txn[w].clean]_vars

\* The record with a structured address, for which both the address and the
\* city-level query came back empty, committed as 'processed' with a clean row
\* without geometry.
C20_Witness ==
    \E c \in event_clean :
        /\ event_raw[c.event_raw_id].raw_json = Bachata
        /\ c.venue_geom = NoPoint
        /\ StatusOf(c.event_raw_id) = "processed"
        /\ db_errors = NoDbErrors


\* A parse worker pops the head of jsonld_raw.
Pops(p) ==
    /\ p \in ParseWorkers
    /\ ppc[p] = "idle"
    /\ jsonld_raw /= <<>>
    /\ jsonld_raw' = Tail(jsonld_raw)
    /\ stats'[p].processed = stats[p].processed + 1

\* What worker_parse asks of a package, stated on the package itself.
Complete(record) ==
    /\ record.original_url \notin {NULL, ""}
    /\ record.source_metro_id /= NULL
    /\ record.blob.type \in {"Event", "DanceEvent", "SocialDance"}
    /\ record.blob.name \notin {NULL, ""}
    /\ record.blob.startDate \in {"2024-07-20T20:00:00Z", "2024-07-20T22:30:00Z",
                                  "2024-07-21T19:00:00Z", "2024-07-22T18:00:00Z"}

\* C21: every row a parse worker has written or is about to write belongs to a package
\* with a URL, a region, an approved type, a name and a parseable start; a popped
\* package lacking one of them is dropped: nothing is staged or written for it, it is
\* counted as skipped, and the worker is ready for the next package.
C21_OnlyCompletePackagesInserted ==
    /\ [](\A i \in RawIds :
             event_raw[i].parsed_at /= NoTime =>
                 Complete(Package(event_raw[i].source, event_raw[i].raw_json,
                                  event_raw[i].metro_id)))
    /\ [](\A p \in ParseWorkers : \A r \in ptxn[p] :
             Complete(Package(r.source, r.raw_json, r.metro_id)))
    /\ [][\A p \in ParseWorkers :
             (Pops(p) /\ ~Complete(Head(jsonld_raw))) =>
                 /\ ppc'[p] = "idle"
                 /\ ptxn' = ptxn
                 /\ event_raw' = event_raw
                 /\ stats'[p].skipped = stats[p].skipped + 1
                 /\ stats'[p].inserted = stats[p].inserted]_vars

\* C21 witness: a parse worker has skipped a package, has committed the row of a later
\* package, and is idle again.
C21_Witness ==
    \E p \in ParseWorkers : \E i \in RawIds :
        /\ stats[p].skipped >= 1
        /\ stats[p].inserted >= 1
        /\ ppc[p] = "idle"
        /\ event_raw[i].parsed_at /= NoTime

\* C22: the source_event_id of every row a parse worker has written is the url of the
\* blob, else its @id, else the URL of the page the blob came from; it is never null.
C22_SourceEventIdFallsBackToPageUrl ==
    \A i \in RawIds :
        event_raw[i].parsed_at /= NoTime =>
            /\ event_raw[i].source_event_id /= NULL
            /\ event_raw[i].source_event_id =
                   (IF Truthy(event_raw[i].raw_json.url) THEN event_raw[i].raw_json.url
                    ELSE IF Truthy(event_raw[i].raw_json.id) THEN event_raw[i].raw_json.id
                    ELSE event_raw[i].source)

\* C23: a parse worker stages the blob of the package it popped, as received; the row
\* it commits is the staged one with parsed_at set and normalized_at and
\* normalization_status null; and no step of a producer writes event_clean or changes
\* a row event_raw already holds.
C23_ParseWorkerStoresBlobUnmodified ==
    [][/\ event_clean' = event_clean
       /\ Len(event_raw') >= Len(event_raw)
       /\ \A i \in RawIds : event_raw'[i] = event_raw[i]
       /\ \A p \in ParseWorkers :
             /\ (Pops(p) /\ ppc'[p] = "insert") =>
                   /\ ppkg'[p].raw_json = Head(jsonld_raw).blob
                   /\ ppkg'[p].source = Head(jsonld_raw).original_url
                   /\ ppkg'[p].metro_id = Head(jsonld_raw).source_metro_id
             /\ (ppc[p] = "insert" /\ ppc'[p] = "commit") => ptxn'[p] \subseteq {ppkg[p]}
             /\ (ppc[p] = "commit" /\ ppc'[p] = "idle" /\ ptxn[p] /= {}) =>
                   /\ Len(event_raw') = Len(event_raw) + 1
                   /\ LET row == event_raw'[Len(event_raw')]
                      IN  /\ row.raw_json = ppkg[p].raw_json
                          /\ row.source = ppkg[p].source
                          /\ row.metro_id = ppkg[p].metro_id
                          /\ row.parsed_at /= NoTime
                          /\ row.normalized_at = NoTime
                          /\ row.normalization_status = NULL]_vars

\* C23 witness: event_raw holds a row of a parse worker whose blob has a name with
\* surrounding blanks, stored as it came, beside an earlier row.
C23_Witness ==
    \E i \in RawIds :
        /\ i > 1
        /\ event_raw[i].parsed_at /= NoTime
        /\ event_raw[i].raw_json.name = " Salsa Night "
        /\ event_raw[i].normalization_status = NULL
        /\ event_clean = {}

C25_FailedUrlDroppedPageClosed ==
    /\ [](\A f \in Fetchers : fetcher[f].pc = "idle" => fetcher[f].page = "none")
    /\ [][\A f \in Fetchers :
             /\ (fetcher'[f] /= fetcher[f]) =>
                   \/ url_queue' = url_queue
                   \/ url_queue /= <<>> /\ url_queue' = Tail(url_queue)
             /\ (fetcher'[f].pc = "goto" /\ fetcher[f].pc /= "goto") =>
                   /\ fetcher[f].pc = "idle"
                   /\ url_queue' = Tail(url_queue)
                   /\ fetcher'[f].url_data = Head(url_queue)
             /\ (fetcher[f].pc = "goto" /\ fetcher'[f].fail_count /= fetcher[f].fail_count) =>
                   /\ fetcher'[f].fail_count = fetcher[f].fail_count + 1
                   /\ fetcher'[f].pc = IF fetcher'[f].page = "open" THEN "close" ELSE "idle"
                   /\ jsonld_raw' = jsonld_raw
             /\ (fetcher[f].pc = "close" /\ fetcher'[f] /= fetcher[f]) =>
                   fetcher'[f].pc = "idle" /\ fetcher'[f].page = "none"]_vars

\* C25 witness: the page of a worker failed to load; the failure is counted, the
\* page is about to be closed, and url_queue holds the next package and not the failed
\* one.
C25_Witness ==
    \E f \in Fetchers :
        /\ fetcher[f].pc = "close"
        /\ fetcher[f].page = "open"
        /\ fetcher[f].outcome = "goto_error"
        /\ fetcher[f].fail_count = 1
        /\ fetcher[f].url_data.url = "https://a.example/page"
        /\ url_queue = <<UrlPackage("https://b.example/page", "m2", "cuban salsa")>>
        /\ \A g \in Fetchers \ {f} : fetcher[g] = IdleFetcher

\* The places (request, position) at which the requests sent so far hold the task of
\* a region and a term.
PlacesOf(city_info, term) ==
    {q \in UNION {{<<r, j>> : j \in 1..Len(submit.posted[r])} : r \in 1..Len(submit.posted)} :
        /\ submit.posted[q[1]][q[2]].keyword = term \o <<" ", "in", " ", city_info.name>>
        /\ submit.posted[q[1]][q[2]].location_code = int_location_code(city_info.location_code)}

\* C26: no request holds more than 100 tasks; the task of a region with a location
\* code and a term is never in two places of the requests sent; and once the call is
\* over it is in exactly one, while a region without a location code is in none.
C26_RequestsPartitionTheProduct ==
    /\ \A r \in 1..Len(submit.posted) :
          Len(submit.posted[r]) >= 1 /\ Len(submit.posted[r]) <= 100
    /\ \A c \in 1..Len(submit.cities_df) : \A k \in 1..Len(submit.broad_search_terms) :
          LET places == PlacesOf(submit.cities_df[c], submit.broad_search_terms[k])
          IN  IF submit.cities_df[c].location_code = NULL
              THEN places = {}
              ELSE /\ Cardinality(places) <= 1
                   /\ submit.pc = "done" => Cardinality(places) = 1

\* C26 witness: a call over two regions with a location code, one without, and 101
\* terms has ended after three requests, two of them of 100 tasks.
C26_Witness ==
    /\ submit.pc = "done"
    /\ Len(submit.cities_df) = 3
    /\ Len(submit.broad_search_terms) = 101
    /\ Len(submit.posted) = 3
    /\ Len(submit.posted[1]) = 100
    /\ Len(submit.posted[2]) = 100
    /\ Len(submit.posted[3]) = 2

\* The region and term a task was built from, by its position in post_data_array.
CodedCities == SelectSeq(submit.cities_df, LAMBDA city_info : city_info.location_code /= NULL)
CityOfTask(position) ==
    CodedCities[((position - 1) \div Len(submit.broad_search_terms)) + 1]
TermOfTask(position) ==
    submit.broad_search_terms[((position - 1) % Len(submit.broad_search_terms)) + 1]

\* C27: the metadata decoded from the tag of a task holds the region id and the search
\* term the tag was built from, exactly; and two different tasks of one call never
\* carry the same tag.
C27_TagDecodesToRegionAndTerm ==
    /\ \A n \in 1..Len(submit.task_metadata_map) :
          LET entry == submit.task_metadata_map[n]
              task == submit.post_data_array[entry.task_id]
          IN  entry.metadata.original_tag = task.tag =>
                  /\ task.tag = tag_content(CityOfTask(entry.task_id).geonameid,
                                            TermOfTask(entry.task_id),
                                            CityOfTask(entry.task_id).language_code, submit.now)
                  /\ entry.metadata.metro_id = CityOfTask(entry.task_id).geonameid
                  /\ entry.metadata.dance_style = TermOfTask(entry.task_id)
    /\ \A i, j \in 1..Len(submit.post_data_array) :
          submit.post_data_array[i].tag = submit.post_data_array[j].tag => i = j
\* C28: in a poll round only ids that the API reported ready and that are still
\* pending are fetched; an id leaves the pending set only in the fetch of that id and
\* only when the fetch gave its result; a fetch that fails (request error, body that
\* is not JSON, bad status, no result) leaves the id pending and the other ready ids
\* of the round are still fetched.
GetFailures == GetOutcomes \ {"ok"}
C30_OneRowPerItemAcrossPaths ==
    \A i, j \in 1..Len(event_raw) :
        (/\ event_raw[i].raw_json.type = "event_item"
         /\ event_raw[j].raw_json.type = "event_item"
         /\ event_raw[i].raw_json.id = event_raw[j].raw_json.id
         /\ event_raw[i].source_event_id = event_raw[j].source_event_id) => i = j

\* C31: an interrupted fetch or parse worker stops only between two records (a worker
\* that was handling a package first finishes it), and a stopped worker never leaves
\* the package it held half-applied: a page with some of its blobs published and
\* others not, or an inserted row that is neither committed nor rolled back.
C31_InterruptStopsAtRecordBoundary ==
    /\ [](\A f \in Fetchers :
            fetcher[f].pc = "stopped" =>
                fetcher[f].pushed = 0 \/ fetcher[f].extracted_data = <<>>)
    /\ [](\A p \in ParseWorkers : ppc[p] = "stopped" => ptxn[p] = {})
    /\ [][/\ \A f \in Fetchers :
               (fetcher[f].pc /= "stopped" /\ fetcher'[f].pc = "stopped") =>
                   fetcher[f].pc = "idle"
          /\ \A p \in ParseWorkers :
               (ppc[p] /= "stopped" /\ ppc'[p] = "stopped") => ppc[p] = "idle"]_vars

\* C32: no package is lost when a worker is interrupted or killed and started again:
\* the package a fetch or parse worker held when it ended was fully handled (the page
\* failed or all its blobs are published; the row is in event_raw) or is still in the
\* queue it was popped from.
Ended == {"stopped", "killed"}
C32_NoPackageLostAcrossRestart ==
    /\ \A f \in Fetchers :
          (fetcher[f].pc \in Ended /\ fetcher[f].url_data /= NoUrlData) =>
              \/ fetcher[f].outcome /= NULL /\ fetcher[f].extracted_data = <<>>
              \/ \E k \in 1..Len(url_queue) : url_queue[k] = fetcher[f].url_data
    /\ \A p \in ParseWorkers :
          (ppc[p] \in Ended /\ ppkg[p] /= NoRow) =>
              \/ \E i \in RawIds : /\ event_raw[i].source = ppkg[p].source
                                    /\ event_raw[i].raw_json = ppkg[p].raw_json
              \/ \E k \in 1..Len(jsonld_raw) :
                    /\ jsonld_raw[k].original_url = ppkg[p].source
                    /\ jsonld_raw[k].blob = ppkg[p].raw_json

\* The payload of the row has a title, a parseable start, a venue name and an address,
\* and the row arrived with a region hint.
HasAllParts(raw_event_row) ==
    LET loc == raw_event_row.raw_json.location
    IN  /\ ~LacksTitleOrStart(raw_event_row)
        /\ loc.kind = "dict"
        /\ Truthy(normalize_string(loc.name))
        /\ Truthy(AddressToGeocode(loc))
        /\ raw_event_row.metro_id /= NULL

\* The dance styles one of whose keywords stands as whole words in the title, in the
\* description or in the venue name of the payload.
StylesNamedIn(jsonld) ==
    LET texts == {jsonld.name, jsonld.description, jsonld.location.name} \ {NULL}
    IN  {style \in DOMAIN DANCE_STYLE_KEYWORDS :
            \E text \in texts : \E k \in 1..Len(DANCE_STYLE_KEYWORDS[style]) :
                re_search(DANCE_STYLE_KEYWORDS[style][k], Words(text))}
StylesNamed(raw_event_row) == StylesNamedIn(raw_event_row.raw_json)

\* The dict is the one the claim describes for the raw row.
CleanAsDescribed(c, raw_event_row) ==
    /\ c.title = normalize_string(raw_event_row.raw_json.name)
    /\ IF Covered(c.venueGeom)
       THEN \E m \in Metro : c.venueGeom \in m.bbox /\ c.metro_id = m.geonameid
       ELSE c.metro_id = raw_event_row.metro_id
    /\ StylesNamed(raw_event_row) \subseteq c.tags
    /\ c.quality_score >= 25

\* C33: for an awaiting record with a title, a parseable start, a venue name, an
\* address and a region hint the loop body of the normalize worker, no statement
\* failing in the store, ends with the status 'processed' or 'duplicate'; when
\* 'processed', the dict it inserts has the record's title, the id of the region
\* covering its coordinates or else the hint, tags with every dance style named as a
\* whole word in title, description or venue name, and a quality_score of at least 25.
C33_CompleteRecordIsNormalized ==
    (/\ norm_run.pc = "done"
     /\ norm_run.dbok
     /\ HasAllParts(norm_run.raw_event_row)) =>
        /\ norm_run.status \in {"processed", "duplicate"}
        /\ norm_run.status = "processed" =>
              CleanAsDescribed(norm_run.event, norm_run.raw_event_row)

\* The record whose description names kizomba and west coast swing by their second
\* keywords is 'processed'; its dict carries the three styles and not salsa, and
\* scores 27 (title, start, venue name, url) plus 1 for the tags.
C33_Witness ==
    /\ norm_run.pc = "done"
    /\ norm_run.raw_event_row.raw_json = Bachata
    /\ HasAllParts(norm_run.raw_event_row)
    /\ norm_run.status = "processed"
    /\ norm_run.event.tags = {"bachata", "kizomba", "west coast swing"}
    /\ norm_run.event.quality_score = 28
    /\ norm_run.event.venueGeom = NoPoint

\* C39: geocode_address terminates and never raises: a call returns None or a
\* location; after a timeout it sleeps longer than before (attempt * 2 seconds) and
\* asks again, at most max_attempts times, and the timeout after the last retry
\* returns None; GeocoderUnavailable and any other exception return None without
\* another request.
C39_GeocodeAddressTerminates ==
    /\ [](geocoder.pc = "request" => geocoder.attempt - 1 <= max_attempts)
    /\ [](geocoder.pc = "done" => geocoder.returned \in {"None", "location"})
    /\ (geocoder.pc = "request") ~> (geocoder.pc = "done")
    /\ [][geocoder.pc = "request" =>
             CASE geocoder'.outcome = "timeout" ->
                     IF geocoder'.pc = "request"
                     THEN /\ geocoder'.attempt = geocoder.attempt + 1
                          /\ geocoder'.slept > geocoder.slept
                     ELSE /\ geocoder.attempt - 1 = max_attempts
                          /\ geocoder'.returned = "None"
               [] geocoder'.outcome \in {"unavailable", "error"} ->
                     /\ geocoder'.pc = "done"
                     /\ geocoder'.returned = "None"
                     /\ geocoder'.attempt = geocoder.attempt
               [] OTHER -> geocoder'.pc = "done"]_vars

\* The request after max_attempts retries has timed out as well, and the call has
\* returned None after sleeps of 2, 4 and 6 seconds.
C39_Witness ==
    /\ geocoder.pc = "done"
    /\ geocoder.outcome = "timeout"
    /\ geocoder.attempt = max_attempts + 1
    /\ geocoder.slept = 6
    /\ geocoder.returned = "None"

\* The statuses the writers of event_raw leave on a record they are done with.
TerminalStatuses == {"processed", "error", "duplicate", "no_events"}

\* C34: in every state of event_raw, whichever program wrote it, a record carries a
\* terminal normalization_status exactly if its normalized_at is set; so no record
\* with a terminal status has parsed_at set and normalized_at null.
C34_TerminalIffNormalizedAt ==
    \A i \in RawIds :
        /\ StatusOf(i) \in TerminalStatuses <=> event_raw[i].normalized_at /= NoTime
        /\ StatusOf(i) \in TerminalStatuses => i \notin Awaiting(event_raw)

\* C38: the venue cache never holds two entries with the same (venue_name, city),
\* entries without a city included, also with several resolvers missing on the same
\* venue at once; and an entry that is in the cache stays in it as it is.
C38_OneCacheEntryPerVenueAndCity ==
    /\ [](\A c, d \in venue_cache :
             (c.venue_name = d.venue_name /\ c.city = d.city) => c = d)
    /\ [][venue_cache \subseteq venue_cache']_vars

\* C35: today's calls_count of api_usage_tracking equals the number of requests
\* issued to the API today, whenever no call stands between its request and its
\* track_api_call; the count changes by one at a time, and only in the
\* track_api_call of a running resolve_venue_address.
C35_CounterEqualsIssuedCalls ==
    /\ []((\A r \in Resolvers : resolver[r].pc /= "track_api_call") =>
              api_usage_tracking.today = places_calls)
    /\ [][api_usage_tracking' /= api_usage_tracking =>
             /\ api_usage_tracking'.today = api_usage_tracking.today + 1
             /\ \E r \in Resolvers : /\ resolver[r].pc = "track_api_call"
                                      /\ resolver'[r].pc /= "track_api_call"]_vars

\* The orchestrator holds an entry that maps the tag to the region and the term
\* of its task.
ContextRecorded(tag) ==
    \E k \in 1..Len(submit.task_metadata_map) :
        LET metadata == submit.task_metadata_map[k].metadata
        IN  /\ metadata.original_tag = tag
            /\ metadata.city_name /= "UnknownFromTagParse"

\* C36: the entry that maps a task's tag to its (region, term) context is recorded
\* before the request with the task is sent: when a chunk is posted the entries of
\* its tasks are there already, and every task of a posted chunk has its entry
\* whatever the response was.
C36_TagContextRecordedBeforeRequest ==
    /\ [][submit'.posted /= submit.posted =>
             \A k \in 1..Len(submit'.posted[Len(submit'.posted)]) :
                 ContextRecorded(submit'.posted[Len(submit'.posted)][k].tag)]_vars
    /\ [](\A c \in 1..Len(submit.posted) : \A k \in 1..Len(submit.posted[c]) :
             ContextRecorded(submit.posted[c][k].tag))

\* C37: in poll_task_results the wait before the first poll of /tasks_ready is the
\* initial interval (10 s), the wait between two consecutive polls is
\* min(1.5 x the previous wait, 60 s), so the waits never decrease and never exceed
\* the 60 s cap.
C37_WaitsBackOffToCap ==
    /\ [][poll'.attempts = poll.attempts + 1 =>
             /\ poll.attempts = 0 => poll'.wait = initial_poll_interval_seconds
             /\ poll.attempts > 0 =>
                   /\ poll'.wait = next_poll_interval(poll.wait)
                   /\ poll'.wait >= poll.wait
             /\ poll'.wait <= max_poll_interval_seconds]_vars

====
